---- MODULE Spec2Model ----
(***************************************************************************)
(* Entry Matcher of the Cantonese/Mandarin sentence pipeline.              *)
(*                                                                         *)
(* A text is a sequence of characters; a character is a one-character      *)
(* string, and a CJK ideograph is written by its code point ("U66F8" is    *)
(* U+66F8).  The two copies of find_best_entry (backend/main.py and        *)
(* generate-sentences.py) are modelled side by side, each regular          *)
(* expression by the scan Python's re module performs for it.              *)
(*                                                                         *)
(* Around the matcher: the two pipelines that call it (PipelineSpec), one  *)
(* call of upload_file_batch (TaskSpec), the runs of                       *)
(* upload_dictionary_entries with their worker pool and progress file      *)
(* (RunSpec), move_processed_entries (MoveSpec), the Firestore scripts     *)
(* upload_to_firestore and add_timestamps_to_documents (StoreSpec), and    *)
(* create_dictionary_entries (SplitSpec).  Each specification leaves the   *)
(* variables of the others at their initial values.                        *)
(***************************************************************************)
EXTENDS Integers, Sequences, FiniteSets, TLC

\* the matcher: its two arguments, the copy called and what it returned
VARIABLES contexts, vocabulary_word, caller, result

\* the two pipelines (the HTTP handler generate_sentences of backend/main.py
\* and process_vocabulary_words of generate-sentences.py): the program
\* counter, the inputs, the locals of the code and what was written
VARIABLES pipeline, pc, request, input_lines, line_no,
          original_word, convert_response, traditional_word,
          mandarin_input, mandarin_sentence, corpus_name, query_text,
          mandarin_meaning, prompt, cantonese_sentence,
          calls, documents, outfile, response

\* one call of upload_file_batch (rag/rag_corpus_confirm.py)
VARIABLES task_pc, task_entry, retry_count, api_outcomes, raised, waits,
          task_result

\* the files on disk that the scripts of rag/ share: the entry files of
\* dictionary_entries/ (by entry ID) and upload_progress.json
VARIABLES entry_files, progress_file

\* one or more runs of upload_dictionary_entries: the coordinating thread
\* (its locals and its position), the executor's queue and workers, and the
\* uploads earlier runs counted as successful
VARIABLES run_pc, run_no, may_fail, restarts_left, uploaded_entries,
          loaded_progress, batches, batch_no, next_submit, queued, running,
          done_ok, done_failed, failed_ids, successful_uploads,
          failed_uploads, earlier_succeeded

\* one run of move_processed_entries (rag/move_processed_entries.py)
VARIABLES move_pc, script_dir, dry_run, done_dir, done_files, to_move

\* backend/upload_vocab.py and backend/add_timestamps.py: the script at work
\* and its position, the vocabulary collection, the parsed entries, the
\* documents read from the collection and how many of them were handled,
\* the write batch in hand, count, and the batches commit() was called on
VARIABLES store_pc, script, collection, vocab_entries, docs, doc_no, batch,
          batch_count, commits

\* backend/rag/create_dictionary_entries.py: the position of the script, the
\* lines of the dictionary file and how many of them the loop has read,
\* total_entries, current_entry, the calls of save_entry and the files of
\* the output directory
VARIABLES split_pc, input_file, lines_read, total_entries, current_entry,
          saved, output_dir

matcher_vars == <<contexts, vocabulary_word, caller, result>>

task_vars ==
    <<task_pc, task_entry, retry_count, api_outcomes, raised, waits,
      task_result>>

disk_vars == <<entry_files, progress_file>>

run_vars ==
    <<run_pc, run_no, may_fail, restarts_left, uploaded_entries,
      loaded_progress, batches, batch_no, next_submit, queued, running,
      done_ok, done_failed, failed_ids, successful_uploads, failed_uploads,
      earlier_succeeded>>

move_vars == <<move_pc, script_dir, dry_run, done_dir, done_files, to_move>>

rag_vars == <<task_vars, disk_vars, run_vars, move_vars>>

store_vars ==
    <<store_pc, script, collection, vocab_entries, docs, doc_no, batch,
      batch_count, commits>>

split_vars ==
    <<split_pc, input_file, lines_read, total_entries, current_entry, saved,
      output_dir>>

backend_vars == <<store_vars, split_vars>>

word_vars ==
    <<original_word, convert_response, traditional_word, mandarin_input,
      mandarin_sentence, corpus_name, query_text, mandarin_meaning, prompt,
      cantonese_sentence, calls>>

pipeline_vars ==
    <<pipeline, pc, request, input_lines, line_no, word_vars,
      documents, outfile, response>>

vars == <<matcher_vars, pipeline_vars, rag_vars, backend_vars>>

-----------------------------------------------------------------------------
(* Bounds of the explored inputs *)

MaxContexts == 2

\* the lines of a vocabulary file
MaxLines == 2

\* the entry files of dictionary_entries/ when uploads may fail and a run
\* may be interrupted
MaxFiles == 3

\* the attempts the retry decorator makes before its deadline is reached
MaxAttempts == 4

(* similarity_top_k of the retrieval query: the service never returns more *)
similarity_top_k == 3

-----------------------------------------------------------------------------
(* Character classes *)

\* str.strip() with no argument removes these
Whitespace == {" ", "\n", "\t"}

\* \d of the re module on str patterns: the decimal digits of Unicode, here
\* the ASCII ones and U+FF11 FULLWIDTH DIGIT ONE
Digit == {"0", "1", "2", "3", "4", "5", "6", "7", "8", "9", "UFF11"}

\* the ideographs used by the inputs, all inside [\u4e00-\u9fff]
CJK == {"U66F8", "U9762", "U8A9E", "U5927", "U9678", "U65A5", "U8CAC", "U7F75"}

\* U+FF0C FULLWIDTH COMMA lies outside [\u4e00-\u9fff]
FullwidthComma == "UFF0C"

-----------------------------------------------------------------------------
(* Sequence helpers *)

SeqsUpTo(S, n) == UNION {[1..k -> S] : k \in 0..n}

\* text[i:] starts with lit
StartsWithAt(text, i, lit) ==
    /\ i + Len(lit) - 1 <= Len(text)
    /\ SubSeq(text, i, i + Len(lit) - 1) = lit

\* the index after the longest run of characters of text, from i, that are
\* in class (negated: that are not); a greedy quantifier over a character class
RECURSIVE RunEnd(_, _, _, _)
RunEnd(text, i, class, negated) ==
    IF i > Len(text) THEN i
    ELSE IF (text[i] \in class) = negated THEN i
    ELSE RunEnd(text, i + 1, class, negated)

-----------------------------------------------------------------------------
(* str.strip() *)

RECURSIVE lstrip(_)
lstrip(s) == IF s # <<>> /\ Head(s) \in Whitespace THEN lstrip(Tail(s)) ELSE s

RECURSIVE rstrip(_)
rstrip(s) ==
    IF s # <<>> /\ s[Len(s)] \in Whitespace
    THEN rstrip(SubSeq(s, 1, Len(s) - 1)) ELSE s

strip(s) == rstrip(lstrip(s))

-----------------------------------------------------------------------------
(* re.match(r'^\d+,([^:]+):', text) *)

NoMatch == [matched |-> FALSE, group1 |-> <<>>]

re_match_entry(text) ==
    LET d == RunEnd(text, 1, Digit, FALSE)         \* after \d+
        h == RunEnd(text, d + 1, {":"}, TRUE)      \* after [^:]+
    IN  IF /\ d > 1
           /\ d <= Len(text) /\ text[d] = ","
           /\ h > d + 1
           /\ h <= Len(text) /\ text[h] = ":"
        THEN [matched |-> TRUE, group1 |-> SubSeq(text, d + 1, h - 1)]
        ELSE NoMatch

-----------------------------------------------------------------------------
(* The formality markers, in the order of the list in the code *)

LabelWritten ==
    <<"(", "l", "a", "b", "e", "l", ":", "U66F8", "U9762", "U8A9E", ")">>
LabelMainland ==
    <<"(", "l", "a", "b", "e", "l", ":", "U5927", "U9678", ")">>
BangFormal == <<"!", "!", "!", "f", "o", "r", "m", "a", "l">>

formality_markers == <<LabelWritten, LabelMainland, BangFormal>>

\* marker in text
Contains(text, lit) == \E i \in 1..Len(text) : StartsWithAt(text, i, lit)

\* as any_marker_in, the third marker left out of the list
any_marker_in_two(text) ==
    \E m \in 1..2 : Contains(text, formality_markers[m])

\* any(marker in text for marker in [...])
any_marker_in(text) ==
    \E m \in 1..Len(formality_markers) : Contains(text, formality_markers[m])

-----------------------------------------------------------------------------
(* re.findall: the spans <<first, last>> of the captures, left to right,   *)
(* non-overlapping; the scan resumes after a match, or one character on    *)

SimOpen == <<"(", "s", "i", "m", ":">>
YueOpen == <<"y", "u", "e", ":">>

\* re.findall(r'\(sim:([^)]+)\)', text)
RECURSIVE findall_sim(_, _)
findall_sim(text, pos) ==
    IF pos > Len(text) THEN <<>>
    ELSE LET b == pos + Len(SimOpen)
             e == RunEnd(text, b, {")"}, TRUE)
         IN  IF /\ StartsWithAt(text, pos, SimOpen)
                /\ e > b
                /\ e <= Len(text)
             THEN <<(<<b, e - 1>>)>> \o findall_sim(text, e + 1)
             ELSE findall_sim(text, pos + 1)

\* re.findall(r'yue:([^\n]+)', text)
RECURSIVE findall_yue(_, _)
findall_yue(text, pos) ==
    IF pos > Len(text) THEN <<>>
    ELSE LET b == pos + Len(YueOpen)
             e == RunEnd(text, b, {"\n"}, TRUE)
         IN  IF StartsWithAt(text, pos, YueOpen) /\ e > b
             THEN <<(<<b, e - 1>>)>> \o findall_yue(text, e)
             ELSE findall_yue(text, pos + 1)

\* as findall_cjk, with re.search in place of re.findall: the first run only
findall_cjk_first(text, pos, last) ==
    IF pos > last THEN <<>>
    ELSE LET starts == {k \in pos..last : text[k] \in CJK}
         IN  IF starts = {} THEN <<>>
             ELSE LET b == CHOOSE k \in starts : \A j \in starts : k <= j
                      e == RunEnd(SubSeq(text, 1, last), b, CJK, FALSE)
                  IN  <<(<<b, e - 1>>)>>

\* re.findall(r'[\u4e00-\u9fff]+', match), as spans of text within
\* first..last
RECURSIVE findall_cjk(_, _, _)
findall_cjk(text, pos, last) ==
    IF pos > last THEN <<>>
    ELSE LET e == RunEnd(SubSeq(text, 1, last), pos, CJK, FALSE)
         IN  IF e > pos
             THEN <<(<<pos, e - 1>>)>> \o findall_cjk(text, e, last)
             ELSE findall_cjk(text, pos + 1, last)

\* the loop over yue_matches
RECURSIVE yue_words(_, _)
yue_words(text, matches) ==
    IF matches = <<>> THEN <<>>
    ELSE findall_cjk(text, Head(matches)[1], Head(matches)[2])
            \o yue_words(text, Tail(matches))

Captures(text, spans) ==
    [k \in 1..Len(spans) |-> SubSeq(text, spans[k][1], spans[k][2])]

-----------------------------------------------------------------------------
(* generate-sentences.py *)

\* as check_entry_details, an entry that merely contains the word ("similar")
\* taken for an exact one
check_entry_details_similar(retrieved_text, word) ==
    IF retrieved_text = <<>> THEN FALSE
    ELSE LET match == re_match_entry(retrieved_text)
         IN  \/ match.matched /\ match.group1 = word
             \/ Contains(retrieved_text, word)

\* only the first component of the returned pair is used by the caller
check_entry_details(retrieved_text, word) ==
    IF retrieved_text = <<>> THEN FALSE
    ELSE LET match == re_match_entry(retrieved_text)
         IN  IF ~match.matched THEN FALSE
             ELSE match.group1 = word

\* as alternative_spans, the two extend calls in the other order
alternative_spans_swapped(entry_text) ==
    yue_words(entry_text, findall_yue(entry_text, 1)) \o findall_sim(entry_text, 1)

\* the spans of the alternatives, in the order of the returned list
alternative_spans(entry_text) ==
    findall_sim(entry_text, 1) \o yue_words(entry_text, findall_yue(entry_text, 1))

check_entry_formality(entry_text) ==
    [is_formal    |-> any_marker_in(entry_text),
     alternatives |-> Captures(entry_text, alternative_spans(entry_text))]

Returned(text, exact, formal, alts) ==
    [raised |-> "", matched_text |-> text, is_exact_match |-> exact,
     is_formal |-> formal, alternatives |-> alts]

\* an exception leaves the function: no tuple is returned
Raises(error) ==
    [raised |-> error, matched_text |-> <<>>, is_exact_match |-> FALSE,
     is_formal |-> FALSE, alternatives |-> <<>>]

\* as first_exact, only the top-ranked context examined
first_exact_top_only(ctxs, word, k) ==
    IF k > Len(ctxs) THEN 0
    ELSE IF check_entry_details(strip(ctxs[k]), word) THEN k
    ELSE 0

\* as first_exact, the loop without its return: the last exact context wins
RECURSIVE first_exact_last(_, _, _)
first_exact_last(ctxs, word, k) ==
    IF k > Len(ctxs) THEN 0
    ELSE LET later == first_exact_last(ctxs, word, k + 1)
         IN  IF later > 0 THEN later
             ELSE IF check_entry_details(strip(ctxs[k]), word) THEN k
             ELSE 0

\* the for loop: the index of the context it returns from, 0 when it ends
RECURSIVE first_exact(_, _, _)
first_exact(ctxs, word, k) ==
    IF k > Len(ctxs) THEN 0
    ELSE IF check_entry_details(strip(ctxs[k]), word) THEN k
    ELSE first_exact(ctxs, word, k + 1)

\* as fallback_entry, contexts[-1] in place of contexts[0]
fallback_entry_last(ctxs) ==
    IF Len(ctxs) = 0 THEN Raises("IndexError")
    ELSE LET text == strip(ctxs[Len(ctxs)])
             f == check_entry_formality(text)
         IN  Returned(text, FALSE, f.is_formal, f.alternatives)

\* text = contexts[0].text.strip() and what follows it; indexing an empty
\* list raises IndexError
fallback_entry(ctxs) ==
    IF Len(ctxs) = 0 THEN Raises("IndexError")
    ELSE LET text == strip(ctxs[1])
             f == check_entry_formality(text)
         IN  Returned(text, FALSE, f.is_formal, f.alternatives)

\* as find_best_entry, without the test for an empty list
find_best_entry_unguarded(ctxs, word) ==
    LET k == first_exact(ctxs, word, 1)
    IN  IF k > 0
        THEN LET text == strip(ctxs[k])
                 f == check_entry_formality(text)
             IN  Returned(text, TRUE, f.is_formal, f.alternatives)
        ELSE fallback_entry(ctxs)

find_best_entry(ctxs, word) ==
    IF ctxs = <<>> THEN Returned(<<>>, FALSE, FALSE, <<>>)
    ELSE LET k == first_exact(ctxs, word, 1)
         IN  IF k > 0
             THEN LET text == strip(ctxs[k])
                      f == check_entry_formality(text)
                  IN  Returned(text, TRUE, f.is_formal, f.alternatives)
             ELSE fallback_entry(ctxs)

-----------------------------------------------------------------------------
(* backend/main.py *)

\* as backend_is_exact, the headword stripped before the comparison
backend_is_exact_stripped(text, word) ==
    LET match == re_match_entry(text)
    IN  match.matched /\ strip(match.group1) = word

\* match and match.group(1) == vocabulary_word
backend_is_exact(text, word) ==
    LET match == re_match_entry(text)
    IN  match.matched /\ match.group1 = word

RECURSIVE backend_first_exact(_, _, _)
backend_first_exact(ctxs, word, k) ==
    IF k > Len(ctxs) THEN 0
    ELSE IF backend_is_exact(strip(ctxs[k]), word) THEN k
    ELSE backend_first_exact(ctxs, word, k + 1)

backend_alternatives(text) == Captures(text, findall_sim(text, 1))

\* as backend_fallback_entry, the text of the first context not stripped
backend_fallback_entry_unstripped(ctxs) ==
    IF Len(ctxs) = 0 THEN Raises("IndexError")
    ELSE LET text == ctxs[1]
         IN  Returned(text, FALSE, any_marker_in(text),
                      backend_alternatives(text))

backend_fallback_entry(ctxs) ==
    IF Len(ctxs) = 0 THEN Raises("IndexError")
    ELSE LET text == strip(ctxs[1])
         IN  Returned(text, FALSE, any_marker_in(text),
                      backend_alternatives(text))

\* as backend_find_best_entry, without the test for an empty list
backend_find_best_entry_unguarded(ctxs, word) ==
    LET k == backend_first_exact(ctxs, word, 1)
    IN  IF k > 0
        THEN LET text == strip(ctxs[k])
             IN  Returned(text, TRUE, any_marker_in(text),
                          backend_alternatives(text))
        ELSE backend_fallback_entry(ctxs)

backend_find_best_entry(ctxs, word) ==
    IF ctxs = <<>> THEN Returned(<<>>, FALSE, FALSE, <<>>)
    ELSE LET k == backend_first_exact(ctxs, word, 1)
         IN  IF k > 0
             THEN LET text == strip(ctxs[k])
                  IN  Returned(text, TRUE, any_marker_in(text),
                               backend_alternatives(text))
             ELSE backend_fallback_entry(ctxs)

-----------------------------------------------------------------------------
(* The inputs: entry texts in the Words.hk serialization               *)
(* "<id>,<headword>:<rest>", and texts that break it                       *)

HeadA      == <<"1", ",", "a", ":">>
HeadB      == <<"2", "0", ",", "b", ":">>
HeadSpaced == <<"1", ",", " ", "a", ":">>
HeadNoId   == <<"a", ":">>

Heads == {HeadA, HeadB, HeadSpaced, HeadNoId}

SimA == SimOpen \o <<"U65A5", "U8CAC", ")">>
SimB == SimOpen \o <<"U8CAC", "U7F75", ")">>
YueLine == YueOpen \o <<"U8CAC", FullwidthComma, "U7F75", "\n">>
\* (label: followed by two of the three ideographs of the first marker
NearMarker == <<"(", "l", "a", "b", "e", "l", ":", "U66F8", "U9762", ")">>

\* texts that vary the prefix and the surrounding whitespace
PrefixTexts ==
    {h \o b : h \in Heads \ {HeadSpaced}, b \in {<<>>, BangFormal \o SimA}}
    \cup {HeadSpaced, <<" ">> \o HeadA, HeadA \o <<"\n">>, <<>>, <<" ">>}

\* texts that vary the annotations after a well-formed prefix
AnnotatedTexts ==
    {HeadA \o x \o y : x \in {<<>>, SimA, YueLine}, y \in {<<>>, SimB, YueLine}}
    \cup {HeadA \o m : m \in {LabelWritten, LabelMainland, BangFormal, NearMarker}}

Texts == PrefixTexts \cup AnnotatedTexts

Words == {<<"a">>, <<"A">>, <<" ", "a">>}

NoResult == Raises("not called")

-----------------------------------------------------------------------------
(* Values of the two pipelines *)

\* Python's None where the code expects a string
None == "None"

\* what Python's `if x` / `not x` tests for a string or None
Truthy(x) == x \notin {None, ""}

\* the word of the request body or of an input line, in simplified script,
\* and the traditional form the conversion model answers with for it
SimplifiedWord == <<"A">>
TraditionalWord == <<"a">>

NoResponse == [raised |-> FALSE, text |-> <<>>]

\* the answers of the conversion call: an exception, the converted word with
\* the newline the model appends, the word unchanged, an empty text
ConvertResponses(word) ==
    {[raised |-> TRUE, text |-> <<>>]}
    \cup {[raised |-> FALSE, text |-> t] :
            t \in {TraditionalWord \o <<"\n">>, word, <<>>}}

\* response.text.strip() of a generation call, None when the call raised; the
\* text of an answer may run over more than one line
Sentences == {None, "", "sentence", "two\nlines"}
Meanings == {"", "meaning"}

\* the corpus retrieval: it raised (None), or returned ranked contexts
RetrievalFailed == [ok |-> FALSE, contexts |-> <<>>]
Retrieved(ctxs) == [ok |-> TRUE, contexts |-> ctxs]
RetrievedContexts ==
    {<<>>, <<HeadA>>, <<HeadA \o BangFormal>>, <<HeadB>>,
     <<HeadB \o LabelWritten \o SimA>>, <<HeadB, HeadA \o <<"\n">> >>}

\* the HTTP requests: the method, what request.get_json() gives (it raises,
\* nothing, an object without the key 'word', an object with it)
NoRequest == [method |-> "none", json |-> "nothing", word |-> <<>>]
Requests ==
    {[method |-> m, json |-> j, word |-> SimplifiedWord] :
        m \in {"OPTIONS", "POST"},
        j \in {"raises", "nothing", "no word", "word"}}

\* the lines of the vocabulary file
Lines == {SimplifiedWord \o <<"\n">>, <<" ", "b">>, <<"\n">>}

NoPrompt ==
    [entry_exact |-> FALSE, entry_formal |-> FALSE, definition |-> "",
     input |-> <<>>]

\* the locals of the code before a word is taken up
NoWord ==
    /\ original_word = <<>>
    /\ convert_response = NoResponse
    /\ traditional_word = <<>>
    /\ mandarin_input = <<>>
    /\ mandarin_sentence = None
    /\ corpus_name = None
    /\ query_text = <<>>
    /\ mandarin_meaning = ""
    /\ prompt = NoPrompt
    /\ cantonese_sentence = None
    /\ calls = <<>>

NoPipeline ==
    /\ pipeline = "none"
    /\ pc = "none"
    /\ request = NoRequest
    /\ input_lines = <<>>
    /\ line_no = 0
    /\ NoWord
    /\ documents = <<>>
    /\ outfile = <<>>
    /\ response = 0

-----------------------------------------------------------------------------
(* Values of the scripts of rag/ *)

\* upload_progress.json: absent, not JSON, or the list of IDs it holds
NoProgressFile == [state |-> "missing", ids |-> {}]

NoTaskResult == [success |-> FALSE, entry_id |-> 0, error |-> "not returned"]

NoTask ==
    /\ task_pc = "none"
    /\ task_entry = 0
    /\ retry_count = 0
    /\ api_outcomes = <<>>
    /\ raised = "nothing"
    /\ waits = <<>>
    /\ task_result = NoTaskResult

NoRun ==
    /\ run_pc = "none"
    /\ run_no = 0
    /\ may_fail = FALSE
    /\ restarts_left = 0
    /\ uploaded_entries = {}
    /\ loaded_progress = {}
    /\ batches = <<>>
    /\ batch_no = 0
    /\ next_submit = 0
    /\ queued = <<>>
    /\ running = {}
    /\ done_ok = {}
    /\ done_failed = {}
    /\ failed_ids = {}
    /\ successful_uploads = 0
    /\ failed_uploads = 0
    /\ earlier_succeeded = {}

NoMove ==
    /\ move_pc = "none"
    /\ script_dir = <<>>
    /\ dry_run = FALSE
    /\ done_dir = "absent"
    /\ done_files = {}
    /\ to_move = {}

NoDisk ==
    /\ entry_files = {}
    /\ progress_file = NoProgressFile

NoRag == NoTask /\ NoDisk /\ NoRun /\ NoMove

-----------------------------------------------------------------------------
(* Values of the scripts of backend/ *)

NoStore ==
    /\ store_pc = "none"
    /\ script = "none"
    /\ collection = {}
    /\ vocab_entries = <<>>
    /\ docs = <<>>
    /\ doc_no = 0
    /\ batch = <<>>
    /\ batch_count = 0
    /\ commits = <<>>

NoSplit ==
    /\ split_pc = "none"
    /\ input_file = <<>>
    /\ lines_read = 0
    /\ total_entries = 0
    /\ current_entry = <<>>
    /\ saved = <<>>
    /\ output_dir = {}

NoBackend == NoStore /\ NoSplit

-----------------------------------------------------------------------------
(* One query: the ranked contexts and the queried word are given, then one *)
(* of the two copies of find_best_entry is called with them                *)

Init ==
    /\ contexts \in SeqsUpTo(Texts, MaxContexts)
    /\ Len(contexts) <= similarity_top_k
    /\ vocabulary_word \in Words
    /\ caller = "none"
    /\ result = NoResult
    /\ NoPipeline
    /\ NoRag
    /\ NoBackend

BackendFindBestEntry ==
    /\ pipeline = "none"
    /\ caller = "none"
    /\ caller' = "backend/main.py"
    /\ result' = backend_find_best_entry(contexts, vocabulary_word)
    /\ UNCHANGED <<contexts, vocabulary_word, pipeline_vars, rag_vars,
                   backend_vars>>

FindBestEntry ==
    /\ pipeline = "none"
    /\ caller = "none"
    /\ caller' = "generate-sentences.py"
    /\ result' = find_best_entry(contexts, vocabulary_word)
    /\ UNCHANGED <<contexts, vocabulary_word, pipeline_vars, rag_vars,
                   backend_vars>>

Next == BackendFindBestEntry \/ FindBestEntry

Spec == Init /\ [][Next]_vars

-----------------------------------------------------------------------------
(* The two pipelines.  One external call is one step; the code between two *)
(* calls belongs to the step of the call before it.  `calls` lists the     *)
(* external calls issued for the word in hand, in the order of issue.      *)

\* as simplified_to_traditional, the answer returned without .strip()
simplified_to_traditional_unstripped(simplified_text, r) ==
    IF r.raised THEN simplified_text ELSE r.text

\* simplified_to_traditional: response.text.strip(), or the argument itself
\* when the call raised
simplified_to_traditional(simplified_text, r) ==
    IF r.raised THEN simplified_text ELSE strip(r.text)

\* as needs_meaning, the formality of the entry not looked at
needs_meaning_inexact_only(is_exact_match, is_formal) == ~is_exact_match

\* if not is_exact_match or is_formal:
needs_meaning(is_exact_match, is_formal) == ~is_exact_match \/ is_formal

\* the system instruction of the Cantonese call, as far as it depends on the
\* matcher and on the meaning query, and the word of the user message
system_instruction(is_exact_match, is_formal, meaning, word) ==
    [entry_exact  |-> is_exact_match,
     entry_formal |-> is_formal,
     definition   |-> IF Truthy(meaning) THEN meaning ELSE "",
     input        |-> word]

\* as should_write, the Cantonese sentence not tested
should_write_mandarin_only(mandarin, cantonese) == Truthy(mandarin)

\* if mandarin_sentence and cantonese_sentence: (CLI), and the negation of
\* if not mandarin_sentence or not cantonese_sentence: (handler)
should_write(mandarin, cantonese) == Truthy(mandarin) /\ Truthy(cantonese)

\* the Firestore document (its server timestamp left out) and the output line
document(word, mandarin, cantonese) ==
    [simplified |-> word, mandarin |-> mandarin, cantonese |-> cantonese]

\* the lines that f"{vocabulary_word}\t{mandarin_sentence}<br><br>
\* {cantonese_sentence}\n" adds to the output file: one, and one more for
\* every line break within a sentence
lines_written(mandarin, cantonese) ==
    1 + (IF mandarin = "two\nlines" THEN 1 ELSE 0)
      + (IF cantonese = "two\nlines" THEN 1 ELSE 0)

\* the tuple find_best_entry returned, or the defaults set before the `if`
matcher_defaults == Returned(<<>>, FALSE, FALSE, <<>>)

\* a word is taken up: the locals are fresh
StartWord(word) ==
    /\ original_word' = word
    /\ convert_response' = NoResponse
    /\ traditional_word' = <<>>
    /\ mandarin_input' = <<>>
    /\ mandarin_sentence' = None
    /\ corpus_name' = None
    /\ query_text' = <<>>
    /\ mandarin_meaning' = ""
    /\ prompt' = NoPrompt
    /\ cantonese_sentence' = None
    /\ calls' = <<>>
    /\ contexts' = <<>>
    /\ vocabulary_word' = <<>>
    /\ caller' = "none"
    /\ result' = NoResult

PipelineInit ==
    /\ contexts = <<>>
    /\ vocabulary_word = <<>>
    /\ caller = "none"
    /\ result = NoResult
    /\ \/ /\ pipeline = "http"
          /\ pc = "request"
          /\ request \in Requests
          /\ input_lines = <<>>
       \/ /\ pipeline = "cli"
          /\ pc = "start"
          /\ request = NoRequest
          /\ input_lines \in SeqsUpTo(Lines, MaxLines)
    /\ line_no = 0
    /\ NoWord
    /\ documents = <<>>
    /\ outfile = <<>>
    /\ response = 0
    /\ NoRag
    /\ NoBackend

\* generate_sentences up to the first external call: the preflight answer,
\* the request body, initialize_vertexai (which re-raises)
HttpReceive ==
    /\ pipeline = "http"
    /\ pc = "request"
    /\ \/ /\ request.method = "OPTIONS"
          /\ response' = 204
          /\ pc' = "done"
          /\ UNCHANGED <<word_vars, matcher_vars>>
       \/ /\ request.method # "OPTIONS"
          /\ request.json = "raises"
          /\ response' = 500
          /\ pc' = "done"
          /\ UNCHANGED <<word_vars, matcher_vars>>
       \/ /\ request.method # "OPTIONS"
          /\ request.json \in {"nothing", "no word"}
          /\ response' = 400
          /\ pc' = "done"
          /\ UNCHANGED <<word_vars, matcher_vars>>
       \/ /\ request.method # "OPTIONS"
          /\ request.json = "word"
          /\ \E initialized \in BOOLEAN :
                IF initialized
                THEN /\ StartWord(request.word)
                     /\ pc' = "convert"
                     /\ UNCHANGED response
                ELSE /\ response' = 500
                     /\ pc' = "done"
                     /\ UNCHANGED <<word_vars, matcher_vars>>
    /\ UNCHANGED <<pipeline, request, input_lines, line_no, documents, outfile>>
    /\ UNCHANGED <<rag_vars, backend_vars>>

\* process_vocabulary_words before its loop: initialize_vertexai and
\* rag.get_corpus may raise, get_rag_corpus may find nothing
CliStart ==
    /\ pipeline = "cli"
    /\ pc = "start"
    /\ \E initialized \in BOOLEAN, name \in {None, "corpus"},
          described \in BOOLEAN :
            pc' = IF ~initialized THEN "raised"
                  ELSE IF ~Truthy(name) THEN "done"
                  ELSE IF ~described THEN "raised"
                  ELSE "line"
    /\ UNCHANGED <<pipeline, request, input_lines, line_no, word_vars,
                   matcher_vars, documents, outfile, response>>
    /\ UNCHANGED <<rag_vars, backend_vars>>

\* for line in infile: vocabulary_word = line.strip(); blank lines skipped
CliNextLine ==
    /\ pipeline = "cli"
    /\ pc = "line"
    /\ IF line_no >= Len(input_lines)
       THEN /\ pc' = "done"
            /\ UNCHANGED <<line_no, word_vars, matcher_vars>>
       ELSE /\ line_no' = line_no + 1
            /\ LET word == strip(input_lines[line_no + 1])
               IN  IF word = <<>>
                   THEN /\ pc' = "line"
                        /\ UNCHANGED <<word_vars, matcher_vars>>
                   ELSE /\ StartWord(word)
                        /\ pc' = "convert"
    /\ UNCHANGED <<pipeline, request, input_lines, documents, outfile,
                   response>>
    /\ UNCHANGED <<rag_vars, backend_vars>>

\* traditional_word = simplified_to_traditional(vocabulary_word)
SimplifiedToTraditional ==
    /\ pc = "convert"
    /\ \E r \in ConvertResponses(original_word) :
        /\ convert_response' = r
        /\ traditional_word' = simplified_to_traditional(original_word, r)
    /\ calls' = Append(calls, "convert")
    /\ pc' = "mandarin"
    /\ UNCHANGED <<pipeline, request, input_lines, line_no, original_word,
                   mandarin_input, mandarin_sentence, corpus_name, query_text,
                   mandarin_meaning, prompt, cantonese_sentence,
                   matcher_vars, documents, outfile, response>>
    /\ UNCHANGED <<rag_vars, backend_vars>>

\* as GenerateMandarinSentence, the word given up when no sentence came back
GenerateMandarinSentenceOrGiveUp ==
    /\ pc = "mandarin"
    /\ mandarin_input' = original_word
    /\ mandarin_sentence' \in Sentences
    /\ calls' = Append(calls, "mandarin")
    /\ pc' = IF Truthy(mandarin_sentence') THEN "corpus" ELSE "write"
    /\ UNCHANGED <<pipeline, request, input_lines, line_no, original_word,
                   convert_response, traditional_word, corpus_name,
                   query_text, mandarin_meaning, prompt, cantonese_sentence,
                   matcher_vars, documents, outfile, response>>
    /\ UNCHANGED <<rag_vars, backend_vars>>

\* mandarin_sentence = generate_mandarin_sentence(model, vocabulary_word)
GenerateMandarinSentence ==
    /\ pc = "mandarin"
    /\ mandarin_input' = original_word
    /\ mandarin_sentence' \in Sentences
    /\ calls' = Append(calls, "mandarin")
    /\ pc' = "corpus"
    /\ UNCHANGED <<pipeline, request, input_lines, line_no, original_word,
                   convert_response, traditional_word, corpus_name,
                   query_text, mandarin_meaning, prompt, cantonese_sentence,
                   matcher_vars, documents, outfile, response>>
    /\ UNCHANGED <<rag_vars, backend_vars>>

\* generate_cantonese_sentence(traditional_word, model): get_rag_corpus()
GetRagCorpus ==
    /\ pc = "corpus"
    /\ corpus_name' \in {None, "corpus"}
    /\ calls' = Append(calls, "corpus")
    /\ pc' = "retrieve"
    /\ UNCHANGED <<pipeline, request, input_lines, line_no, original_word,
                   convert_response, traditional_word, mandarin_input,
                   mandarin_sentence, query_text, mandarin_meaning, prompt,
                   cantonese_sentence, matcher_vars, documents, outfile,
                   response>>
    /\ UNCHANGED <<rag_vars, backend_vars>>

\* perform_rag_retrieval(corpus_name, vocabulary_word), then find_best_entry
\* when something was retrieved, then the test for the meaning query
PerformRagRetrieval ==
    /\ pc = "retrieve"
    /\ query_text' = traditional_word
    /\ calls' = Append(calls, "retrieve")
    /\ \E retrieved_entry \in
            {RetrievalFailed} \cup
            (IF Truthy(corpus_name)
             THEN {Retrieved(c) : c \in RetrievedContexts} ELSE {}) :
        IF retrieved_entry.ok /\ retrieved_entry.contexts # <<>>
        THEN /\ contexts' = retrieved_entry.contexts
             /\ vocabulary_word' = traditional_word
             /\ caller' = IF pipeline = "http" THEN "backend/main.py"
                          ELSE "generate-sentences.py"
             /\ result' =
                  IF pipeline = "http"
                  THEN backend_find_best_entry(retrieved_entry.contexts,
                                               traditional_word)
                  ELSE find_best_entry(retrieved_entry.contexts,
                                       traditional_word)
        ELSE /\ result' = matcher_defaults
             /\ UNCHANGED <<contexts, vocabulary_word, caller>>
    /\ pc' = IF needs_meaning(result'.is_exact_match, result'.is_formal)
             THEN "meaning" ELSE "claude"
    /\ UNCHANGED <<pipeline, request, input_lines, line_no, original_word,
                   convert_response, traditional_word, mandarin_input,
                   mandarin_sentence, corpus_name, mandarin_meaning, prompt,
                   cantonese_sentence, documents, outfile, response>>
    /\ UNCHANGED <<rag_vars, backend_vars>>

\* the meaning query; when it raises mandarin_meaning stays ""
MandarinMeaning ==
    /\ pc = "meaning"
    /\ mandarin_meaning' \in Meanings
    /\ calls' = Append(calls, "meaning")
    /\ pc' = "claude"
    /\ UNCHANGED <<pipeline, request, input_lines, line_no, original_word,
                   convert_response, traditional_word, mandarin_input,
                   mandarin_sentence, corpus_name, query_text, prompt,
                   cantonese_sentence, matcher_vars, documents, outfile,
                   response>>
    /\ UNCHANGED <<rag_vars, backend_vars>>

\* client.messages.create(...) with the system instruction built before it
ClaudeMessages ==
    /\ pc = "claude"
    /\ prompt' = system_instruction(result.is_exact_match, result.is_formal,
                                    mandarin_meaning, traditional_word)
    /\ cantonese_sentence' \in Sentences
    /\ calls' = Append(calls, "claude")
    /\ pc' = "write"
    /\ UNCHANGED <<pipeline, request, input_lines, line_no, original_word,
                   convert_response, traditional_word, mandarin_input,
                   mandarin_sentence, corpus_name, query_text,
                   mandarin_meaning, matcher_vars, documents, outfile,
                   response>>
    /\ UNCHANGED <<rag_vars, backend_vars>>

\* the end of generate_sentences: 500 without both sentences, otherwise
\* doc_ref.set (which may raise: 500) and 200
HttpRespond ==
    /\ pipeline = "http"
    /\ pc = "write"
    /\ IF should_write(mandarin_sentence, cantonese_sentence)
       THEN /\ calls' = Append(calls, "write")
            /\ \E stored \in BOOLEAN :
                IF stored
                THEN /\ documents' =
                          Append(documents,
                                 document(original_word, mandarin_sentence,
                                          cantonese_sentence))
                     /\ response' = 200
                ELSE /\ response' = 500
                     /\ UNCHANGED documents
       ELSE /\ response' = 500
            /\ UNCHANGED <<calls, documents>>
    /\ pc' = "done"
    /\ UNCHANGED <<pipeline, request, input_lines, line_no, original_word,
                   convert_response, traditional_word, mandarin_input,
                   mandarin_sentence, corpus_name, query_text,
                   mandarin_meaning, prompt, cantonese_sentence,
                   matcher_vars, outfile>>
    /\ UNCHANGED <<rag_vars, backend_vars>>

\* as CliWriteLine, the run ended at a word without both sentences
CliWriteLineOrStop ==
    /\ pipeline = "cli"
    /\ pc = "write"
    /\ IF should_write(mandarin_sentence, cantonese_sentence)
       THEN /\ calls' = Append(calls, "write")
            /\ outfile' =
                 Append(outfile,
                        document(original_word, mandarin_sentence,
                                 cantonese_sentence))
            /\ pc' = "line"
       ELSE /\ pc' = "done"
            /\ UNCHANGED <<calls, outfile>>
    /\ UNCHANGED <<pipeline, request, input_lines, line_no, original_word,
                   convert_response, traditional_word, mandarin_input,
                   mandarin_sentence, corpus_name, query_text,
                   mandarin_meaning, prompt, cantonese_sentence,
                   matcher_vars, documents, response>>
    /\ UNCHANGED <<rag_vars, backend_vars>>

\* the end of the loop body of process_vocabulary_words
CliWriteLine ==
    /\ pipeline = "cli"
    /\ pc = "write"
    /\ IF should_write(mandarin_sentence, cantonese_sentence)
       THEN /\ calls' = Append(calls, "write")
            /\ outfile' =
                 Append(outfile,
                        document(original_word, mandarin_sentence,
                                 cantonese_sentence))
       ELSE UNCHANGED <<calls, outfile>>
    /\ pc' = "line"
    /\ UNCHANGED <<pipeline, request, input_lines, line_no, original_word,
                   convert_response, traditional_word, mandarin_input,
                   mandarin_sentence, corpus_name, query_text,
                   mandarin_meaning, prompt, cantonese_sentence,
                   matcher_vars, documents, response>>
    /\ UNCHANGED <<rag_vars, backend_vars>>

PipelineNext ==
    \/ HttpReceive
    \/ CliStart
    \/ CliNextLine
    \/ SimplifiedToTraditional
    \/ GenerateMandarinSentence
    \/ GetRagCorpus
    \/ PerformRagRetrieval
    \/ MandarinMeaning
    \/ ClaudeMessages
    \/ HttpRespond
    \/ CliWriteLine

PipelineSpec == PipelineInit /\ [][PipelineNext]_vars

-----------------------------------------------------------------------------
(* rag/rag_corpus_confirm.py: one call of upload_file_batch.  It calls     *)
(* upload_file_with_retry, which google.api_core's retry.Retry decorator   *)
(* wraps: the decorator calls the function again after an exception its    *)
(* predicate accepts, until its deadline, and then raises RetryError       *)
(* (a GoogleAPIError, not a GoogleAPICallError); it lets every other       *)
(* exception through at once.                                              *)

\* max_retries = 5
max_retries == 5

\* what one rag.upload_file call does: it returns, or raises a
\* GoogleAPICallError that names a quota or rate limit, or another
\* GoogleAPICallError, or an exception of another class
ApiOutcomes == {"ok", "quota", "api error", "other error"}

\* predicate=lambda e: isinstance(e, exceptions.GoogleAPICallError)
retry_predicate(outcome) == outcome \in {"quota", "api error"}

\* what upload_file_with_retry hands to its caller after an attempt with
\* this outcome: "nothing" raised (it returned), "again" when the decorator
\* calls once more, or the exception that leaves it
decorated(outcome, deadline_reached) ==
    IF outcome = "ok" THEN "nothing"
    ELSE IF retry_predicate(outcome)
         THEN IF deadline_reached THEN "RetryError" ELSE "again"
         ELSE "Exception"

\* except exceptions.GoogleAPICallError as e:
is_api_call_error(exception) ==
    exception \in {"GoogleAPICallError: quota", "GoogleAPICallError"}

\* "quota" in str(e).lower() or "rate limit" in str(e).lower()
is_rate_limit(exception) == exception = "GoogleAPICallError: quota"

\* wait_time = min(60 * (2 ** retry_count), 300)
wait_time(count) == IF 60 * (2 ^ count) < 300 THEN 60 * (2 ^ count) ELSE 300

TaskResult(success, id, error) ==
    [success |-> success, entry_id |-> id, error |-> error]

TaskInit ==
    /\ task_pc = "call"
    /\ task_entry \in 1..MaxFiles
    /\ retry_count = 0
    /\ api_outcomes = <<>>
    /\ raised = "nothing"
    /\ waits = <<>>
    /\ task_result = NoTaskResult
    /\ NoDisk /\ NoRun /\ NoMove
    /\ NoPipeline
    /\ NoBackend
    /\ contexts = <<>>
    /\ vocabulary_word = <<>>
    /\ caller = "none"
    /\ result = NoResult

\* one attempt of rag.upload_file inside the decorated function; the
\* deadline of the decorator (7200 s) is reached at some attempt, at the
\* latest at the MaxAttempts-th
UploadFileWithRetry ==
    /\ task_pc = "call"
    /\ \E outcome \in ApiOutcomes, deadline_reached \in BOOLEAN :
        /\ Len(api_outcomes) + 1 >= MaxAttempts => deadline_reached
        /\ api_outcomes' = Append(api_outcomes, outcome)
        /\ LET handed == decorated(outcome, deadline_reached)
           IN  IF handed = "again"
               THEN UNCHANGED <<task_pc, raised>>
               ELSE task_pc' = "caught" /\ raised' = handed
    /\ UNCHANGED <<task_entry, retry_count, waits, task_result>>
    /\ UNCHANGED <<matcher_vars, pipeline_vars, backend_vars,
                   disk_vars, run_vars, move_vars>>

\* the body of the while loop of upload_file_batch after the call: the
\* return, the two except clauses, and the return after the loop
UploadFileBatch ==
    /\ task_pc = "caught"
    /\ IF raised = "nothing"
       THEN /\ task_result' = TaskResult(TRUE, task_entry, "None")
            /\ task_pc' = "returned"
            /\ UNCHANGED <<retry_count, waits>>
       ELSE IF is_api_call_error(raised) /\ is_rate_limit(raised)
       THEN /\ retry_count' = retry_count + 1
            /\ waits' = Append(waits, wait_time(retry_count + 1))
            /\ IF retry_count + 1 < max_retries
               THEN task_pc' = "call" /\ UNCHANGED task_result
               ELSE /\ task_pc' = "returned"
                    /\ task_result' =
                         TaskResult(FALSE, task_entry, "Max retries exceeded")
       ELSE /\ task_result' = TaskResult(FALSE, task_entry, raised)
            /\ task_pc' = "returned"
            /\ UNCHANGED <<retry_count, waits>>
    /\ UNCHANGED <<task_entry, api_outcomes, raised>>
    /\ UNCHANGED <<matcher_vars, pipeline_vars, backend_vars,
                   disk_vars, run_vars, move_vars>>

TaskNext == UploadFileWithRetry \/ UploadFileBatch

TaskSpec == TaskInit /\ [][TaskNext]_vars

-----------------------------------------------------------------------------
(* rag/rag_corpus_confirm.py: upload_dictionary_entries.  The coordinating *)
(* thread loads the progress file, submits the entry files batch by batch  *)
(* to a ThreadPoolExecutor and takes the results as they complete; the     *)
(* workers run upload_file_batch, of which only the outcome matters here.  *)
(* The process may be killed at any step and the script started again.     *)

\* MAX_WORKERS = 5, BATCH_SIZE = 10
MAX_WORKERS == 5
BATCH_SIZE == 10

\* a directory that fills one batch and starts a second
FullLoad == BATCH_SIZE + 1

\* load_progress: the set of the IDs in the file, set() without a readable one
load_progress(file) == IF file.state = "valid" THEN file.ids ELSE {}

\* save_progress: json.dump(list(uploaded_entries), f)
save_progress(ids) == [state |-> "valid", ids |-> ids]

\* the entry files in the order of the directory listing
RECURSIVE listing(_)
listing(files) ==
    IF files = {} THEN <<>>
    ELSE LET first == CHOOSE f \in files : \A g \in files : f <= g
         IN  <<first>> \o listing(files \ {first})

\* as upload_info, without the test against uploaded_entries
upload_info_of_all(files, uploaded) == listing(files)

\* upload_info: the entry files whose ID is not in uploaded_entries
upload_info(files, uploaded) == listing(files \ uploaded)

\* as chunk_list, each chunk after the first starting one element early
chunk_list_overlapping(lst, chunk_size) ==
    [k \in 1..((Len(lst) + chunk_size - 1) \div chunk_size) |->
        SubSeq(lst, IF k = 1 THEN 1 ELSE (k - 1) * chunk_size,
               IF k * chunk_size < Len(lst) THEN k * chunk_size ELSE Len(lst))]

\* [lst[i:i + chunk_size] for i in range(0, len(lst), chunk_size)]
chunk_list(lst, chunk_size) ==
    [k \in 1..((Len(lst) + chunk_size - 1) \div chunk_size) |->
        SubSeq(lst, (k - 1) * chunk_size + 1,
               IF k * chunk_size < Len(lst) THEN k * chunk_size ELSE Len(lst))]

\* as worker_available, one thread more than max_workers
worker_available_one_more(busy) == Cardinality(busy) <= MAX_WORKERS

\* ThreadPoolExecutor(max_workers=MAX_WORKERS): a queued task starts only on
\* a free worker thread
worker_available(busy) == Cardinality(busy) < MAX_WORKERS

\* as entries_after_result, the ID added whatever the result
entries_after_any_result(entries, success, id) == entries \cup {id}

\* if result['success']: uploaded_entries.add(result['entry_id'])
entries_after_result(entries, success, id) ==
    IF success THEN entries \cup {id} ELSE entries

\* if successful_uploads % 10 == 0: save_progress(uploaded_entries)
saves_now(successes) == successes % 10 = 0

NotStarted ==
    /\ uploaded_entries = {}
    /\ loaded_progress = {}
    /\ batches = <<>>
    /\ batch_no = 0
    /\ next_submit = 0
    /\ queued = <<>>
    /\ running = {}
    /\ done_ok = {}
    /\ done_failed = {}
    /\ failed_ids = {}
    /\ successful_uploads = 0
    /\ failed_uploads = 0

\* either a few entry files, uploads that may fail and a process that may be
\* killed and started again, or a directory of FullLoad files whose uploads
\* all succeed in an undisturbed run
RunInit ==
    /\ \/ /\ \E n \in 0..MaxFiles : entry_files = 1..n
          /\ progress_file \in
                {NoProgressFile, [state |-> "invalid", ids |-> {}]}
                \cup {save_progress(ids) : ids \in SUBSET entry_files}
          /\ may_fail = TRUE
          /\ restarts_left = 1
       \/ /\ entry_files = 1..FullLoad
          /\ progress_file = NoProgressFile
          /\ may_fail = FALSE
          /\ restarts_left = 0
    /\ run_pc = "start"
    /\ run_no = 1
    /\ earlier_succeeded = {}
    /\ NotStarted
    /\ NoTask /\ NoMove
    /\ NoPipeline
    /\ NoBackend
    /\ contexts = <<>>
    /\ vocabulary_word = <<>>
    /\ caller = "none"
    /\ result = NoResult

\* upload_dictionary_entries up to the executor: load_progress, upload_info,
\* the early return, chunk_list
StartRun ==
    /\ run_pc = "start"
    /\ LET loaded == load_progress(progress_file)
           info == upload_info(entry_files, loaded)
       IN  /\ uploaded_entries' = loaded
           /\ loaded_progress' = loaded
           /\ IF Len(info) = 0
              THEN /\ run_pc' = "done"
                   /\ UNCHANGED <<batches, batch_no, next_submit>>
              ELSE /\ batches' = chunk_list(info, BATCH_SIZE)
                   /\ batch_no' = 1
                   /\ next_submit' = 1
                   /\ run_pc' = "submit"
    /\ UNCHANGED <<run_no, may_fail, restarts_left, queued, running, done_ok,
                   done_failed, failed_ids, successful_uploads,
                   failed_uploads, earlier_succeeded, disk_vars>>
    /\ UNCHANGED <<matcher_vars, pipeline_vars, backend_vars,
                   task_vars, move_vars>>

\* executor.submit(upload_file_batch, args) for the next file of the batch
SubmitTask ==
    /\ run_pc = "submit"
    /\ queued' = Append(queued, batches[batch_no][next_submit])
    /\ next_submit' = next_submit + 1
    /\ run_pc' = IF next_submit = Len(batches[batch_no]) THEN "collect"
                 ELSE "submit"
    /\ UNCHANGED <<run_no, may_fail, restarts_left, uploaded_entries,
                   loaded_progress, batches, batch_no, running, done_ok,
                   done_failed, failed_ids, successful_uploads,
                   failed_uploads, earlier_succeeded, disk_vars>>
    /\ UNCHANGED <<matcher_vars, pipeline_vars, backend_vars,
                   task_vars, move_vars>>

\* a worker thread takes the oldest queued task
StartTask ==
    /\ queued # <<>>
    /\ worker_available(running)
    /\ running' = running \cup {Head(queued)}
    /\ queued' = Tail(queued)
    /\ UNCHANGED <<run_pc, run_no, may_fail, restarts_left, uploaded_entries,
                   loaded_progress, batches, batch_no, next_submit, done_ok,
                   done_failed, failed_ids, successful_uploads,
                   failed_uploads, earlier_succeeded, disk_vars>>
    /\ UNCHANGED <<matcher_vars, pipeline_vars, backend_vars,
                   task_vars, move_vars>>

\* upload_file_batch returns in a worker thread: the future is done
CompleteTask ==
    /\ \E id \in running :
        /\ running' = running \ {id}
        /\ \E success \in (IF may_fail THEN BOOLEAN ELSE {TRUE}) :
            IF success
            THEN done_ok' = done_ok \cup {id} /\ UNCHANGED done_failed
            ELSE done_failed' = done_failed \cup {id} /\ UNCHANGED done_ok
    /\ UNCHANGED <<run_pc, run_no, may_fail, restarts_left, uploaded_entries,
                   loaded_progress, batches, batch_no, next_submit, queued,
                   failed_ids, successful_uploads, failed_uploads,
                   earlier_succeeded, disk_vars>>
    /\ UNCHANGED <<matcher_vars, pipeline_vars, backend_vars,
                   task_vars, move_vars>>

\* one turn of `for future in as_completed(future_to_file)`, and with the last
\* future of a batch what follows the loop: the next batch, or after the last
\* batch the final save_progress
ProcessResult ==
    /\ run_pc = "collect"
    /\ \E id \in done_ok \cup done_failed :
        LET success == id \in done_ok
            successes == successful_uploads + (IF success THEN 1 ELSE 0)
            entries == entries_after_result(uploaded_entries, success, id)
            batch_done == queued = <<>> /\ running = {}
                          /\ done_ok \cup done_failed = {id}
            last_batch == batch_no = Len(batches)
        IN  /\ done_ok' = done_ok \ {id}
            /\ done_failed' = done_failed \ {id}
            /\ successful_uploads' = successes
            /\ failed_uploads' = failed_uploads + (IF success THEN 0 ELSE 1)
            /\ failed_ids' = IF success THEN failed_ids
                             ELSE failed_ids \cup {id}
            /\ uploaded_entries' = entries
            /\ progress_file' =
                 IF (success /\ saves_now(successes))
                    \/ (batch_done /\ last_batch)
                 THEN save_progress(entries) ELSE progress_file
            /\ IF ~batch_done
               THEN UNCHANGED <<run_pc, batch_no, next_submit>>
               ELSE IF last_batch
               THEN run_pc' = "done" /\ UNCHANGED <<batch_no, next_submit>>
               ELSE /\ run_pc' = "submit"
                    /\ batch_no' = batch_no + 1
                    /\ next_submit' = 1
    /\ UNCHANGED <<run_no, may_fail, restarts_left, loaded_progress, batches,
                   queued, running, earlier_succeeded, entry_files>>
    /\ UNCHANGED <<matcher_vars, pipeline_vars, backend_vars,
                   task_vars, move_vars>>

\* the process is killed (or has ended) and the script is started again:
\* what was in memory is gone, the files stay
Restart ==
    /\ run_pc \in {"submit", "collect", "done"}
    /\ restarts_left > 0
    /\ restarts_left' = restarts_left - 1
    /\ run_no' = run_no + 1
    /\ earlier_succeeded' =
         earlier_succeeded \cup (uploaded_entries \ loaded_progress)
    /\ run_pc' = "start"
    /\ uploaded_entries' = {}
    /\ loaded_progress' = {}
    /\ batches' = <<>>
    /\ batch_no' = 0
    /\ next_submit' = 0
    /\ queued' = <<>>
    /\ running' = {}
    /\ done_ok' = {}
    /\ done_failed' = {}
    /\ failed_ids' = {}
    /\ successful_uploads' = 0
    /\ failed_uploads' = 0
    /\ UNCHANGED <<may_fail, disk_vars>>
    /\ UNCHANGED <<matcher_vars, pipeline_vars, backend_vars,
                   task_vars, move_vars>>

RunNext ==
    \/ StartRun
    \/ SubmitTask
    \/ StartTask
    \/ CompleteTask
    \/ ProcessResult
    \/ Restart

RunSpec == RunInit /\ [][RunNext]_vars

-----------------------------------------------------------------------------
(* rag/move_processed_entries.py: one run of move_processed_entries        *)

\* Path(__file__).parent.parent as a string: empty when the script was
\* started by a relative path from the directory above rag/, otherwise the
\* absolute path of the checkout
ScriptDirs ==
    {<<>>, <<"/", "s", "r", "v">>,
     <<"/", "a", "b", "a", "n", "d", "o", "n", "e", "d">>}

Decimal(n) ==
    <<<<"0">>, <<"1">>, <<"2">>, <<"3">>, <<"4">>, <<"5">>, <<"6">>, <<"7">>,
      <<"8">>, <<"9">>>>[n + 1]

\* str(script_dir / 'dictionary_entries' / f"entry_{id}.txt")
file_path(dir, id) ==
    (IF dir = <<>> THEN <<>> ELSE dir \o <<"/">>)
    \o <<"d", "i", "c", "t", "i", "o", "n", "a", "r", "y", "_",
         "e", "n", "t", "r", "i", "e", "s", "/">>
    \o <<"e", "n", "t", "r", "y", "_">> \o Decimal(id)
    \o <<".", "t", "x", "t">>

\* if 'done' in str(file_path): continue
skipped(path) == Contains(path, <<"d", "o", "n", "e">>)

\* the list to_move the loop over entries_dir.glob('entry_*.txt') builds
files_to_move(dir, files, processed_entries) ==
    {id \in files : ~skipped(file_path(dir, id)) /\ id \in processed_entries}

MoveInit ==
    /\ move_pc = "start"
    /\ script_dir \in ScriptDirs
    /\ dry_run \in BOOLEAN
    /\ done_dir \in {"absent", "present"}
    /\ done_files = {}
    /\ to_move = {}
    /\ \E n \in 0..MaxFiles : entry_files = 1..n
    /\ progress_file \in
          {NoProgressFile, [state |-> "invalid", ids |-> {}]}
          \cup {[state |-> "valid", ids |-> ids] : ids \in SUBSET (1..MaxFiles)}
    /\ NoTask /\ NoRun
    /\ NoPipeline
    /\ NoBackend
    /\ contexts = <<>>
    /\ vocabulary_word = <<>>
    /\ caller = "none"
    /\ result = NoResult

\* move_processed_entries up to its move loop: done_dir.mkdir unless dry_run,
\* the progress file (FileNotFoundError and JSONDecodeError end the run), the
\* list to_move; a dry run only logs it
MoveProcessedEntries ==
    /\ move_pc = "start"
    /\ done_dir' = IF ~dry_run /\ done_dir = "absent" THEN "created"
                   ELSE done_dir
    /\ IF progress_file.state # "valid"
       THEN move_pc' = "done" /\ UNCHANGED to_move
       ELSE /\ to_move' =
                 files_to_move(script_dir, entry_files, progress_file.ids)
            /\ move_pc' = IF dry_run \/ to_move' = {} THEN "done"
                          ELSE "moving"
    /\ UNCHANGED <<script_dir, dry_run, done_files, disk_vars>>
    /\ UNCHANGED <<matcher_vars, pipeline_vars, backend_vars,
                   task_vars, run_vars>>

\* shutil.move(str(source), str(target)) for one pair of to_move
ShutilMove ==
    /\ move_pc = "moving"
    /\ \E id \in to_move :
        /\ entry_files' = entry_files \ {id}
        /\ done_files' = done_files \cup {id}
        /\ to_move' = to_move \ {id}
        /\ move_pc' = IF to_move' = {} THEN "done" ELSE "moving"
    /\ UNCHANGED <<script_dir, dry_run, done_dir, progress_file>>
    /\ UNCHANGED <<matcher_vars, pipeline_vars, backend_vars,
                   task_vars, run_vars>>

MoveNext == MoveProcessedEntries \/ ShutilMove

MoveSpec == MoveInit /\ [][MoveNext]_vars


-----------------------------------------------------------------------------
(* backend/upload_vocab.py: upload_to_firestore, and                       *)
(* backend/add_timestamps.py: add_timestamps_to_documents.  Each script    *)
(* reads the vocabulary collection of its database, fills write batches    *)
(* and commits them; a commit is applied as a whole or raises, and the     *)
(* script does not catch what it raises.  Nothing else writes to the       *)
(* collection while a script runs.                                         *)

\* batch_size = 500 (both scripts)
batch_size == 500

\* the longest list of entries or documents, in batches
MaxBatches == 2

\* how many entries are uploaded, or documents stamped
Counts == {0, 1, batch_size, batch_size + 1, MaxBatches * batch_size}

\* how many documents the collection holds before an upload
ExistingCounts == {0, 2, batch_size + 1}

Doc(ref, data) == [ref |-> ref, data |-> data, timestamp |-> FALSE]

\* what a document of an earlier upload holds; the entries of this one are
\* numbered from 1
Old == 0

\* the collection before a run: documents with the IDs 1..n
Stored(n) == {Doc(i, Old) : i \in 1..n}

\* vocab_ref.stream(): the documents of the collection in the order of their
\* IDs, which for the collection before a run are 1..n
stream(coll) ==
    [i \in 1..Cardinality(coll) |-> CHOOSE d \in coll : d.ref = i]

\* one write of a batch: batch.delete(doc.reference), batch.set(doc_ref,
\* entry) or batch.update(doc.reference, {'timestamp': SERVER_TIMESTAMP})
write(op, ref, data) == [op |-> op, ref |-> ref, data |-> data]

Refs(ops, kind) ==
    {ops[i].ref : i \in {j \in 1..Len(ops) : ops[j].op = kind}}

\* as commit, the deletes of the batch left out
commit_without_deletes(coll, ops) ==
    {IF d.ref \in Refs(ops, "update") THEN [d EXCEPT !.timestamp = TRUE]
     ELSE d : d \in coll}
    \cup {Doc(ops[i].ref, ops[i].data) :
            i \in {j \in 1..Len(ops) : ops[j].op = "set"}}

\* batch.commit() when it is applied: every write of the batch at once
commit(coll, ops) ==
    {IF d.ref \in Refs(ops, "update") THEN [d EXCEPT !.timestamp = TRUE]
     ELSE d : d \in {x \in coll : x.ref \notin Refs(ops, "delete")}}
    \cup {Doc(ops[i].ref, ops[i].data) :
            i \in {j \in 1..Len(ops) : ops[j].op = "set"}}

\* vocab_ref.document(): a reference with a new auto-generated ID
document_ref(existing, created) == existing + created + 1

\* if count % batch_size == 0
batch_full(n) == n % batch_size = 0

\* if count % batch_size != 0
batch_left(n) == n % batch_size # 0

StoreInit ==
    /\ \/ /\ script = "upload_vocab"
          /\ \E e \in ExistingCounts : collection = Stored(e)
          /\ \E n \in Counts : vocab_entries = [k \in 1..n |-> k]
       \/ /\ script = "add_timestamps"
          /\ \E e \in Counts : collection = Stored(e)
          /\ vocab_entries = <<>>
    /\ store_pc = "start"
    /\ docs = <<>>
    /\ doc_no = 0
    /\ batch = <<>>
    /\ batch_count = 0
    /\ commits = <<>>
    /\ NoSplit
    /\ NoRag
    /\ NoPipeline
    /\ contexts = <<>>
    /\ vocabulary_word = <<>>
    /\ caller = "none"
    /\ result = NoResult

\* upload_to_firestore up to the loop over the existing documents
UploadToFirestore ==
    /\ store_pc = "start"
    /\ script = "upload_vocab"
    /\ docs' = stream(collection)
    /\ doc_no' = 0
    /\ batch' = <<>>
    /\ store_pc' = "delete"
    /\ UNCHANGED <<script, collection, vocab_entries, batch_count, commits>>
    /\ UNCHANGED <<matcher_vars, pipeline_vars, rag_vars, split_vars>>

\* for doc in docs: batch.delete(doc.reference)
BatchDelete ==
    /\ store_pc = "delete"
    /\ doc_no < Len(docs)
    /\ batch' = Append(batch, write("delete", docs[doc_no + 1].ref, 0))
    /\ doc_no' = doc_no + 1
    /\ UNCHANGED <<store_pc, script, collection, vocab_entries, docs,
                   batch_count, commits>>
    /\ UNCHANGED <<matcher_vars, pipeline_vars, rag_vars, split_vars>>

\* batch.commit() after the loop, then batch = db.batch() and count = 0
CommitDeletes ==
    /\ store_pc = "delete"
    /\ doc_no = Len(docs)
    /\ \E applied \in BOOLEAN :
        /\ commits' =
             Append(commits, [ops |-> batch, applied |-> applied])
        /\ IF applied
           THEN /\ collection' = commit(collection, batch)
                /\ batch' = <<>>
                /\ batch_count' = 0
                /\ store_pc' = "upload"
           ELSE /\ store_pc' = "failed"
                /\ UNCHANGED <<collection, batch, batch_count>>
    /\ UNCHANGED <<script, vocab_entries, docs, doc_no>>
    /\ UNCHANGED <<matcher_vars, pipeline_vars, rag_vars, split_vars>>

\* one turn of `for entry in entries`: batch.set, count += 1, and with a full
\* batch its commit and a new batch
BatchSet ==
    /\ store_pc = "upload"
    /\ batch_count < Len(vocab_entries)
    /\ LET doc_ref == document_ref(Len(docs), batch_count)
           filled == Append(batch, write("set", doc_ref,
                                         vocab_entries[batch_count + 1]))
       IN  /\ batch_count' = batch_count + 1
           /\ IF batch_full(batch_count + 1)
              THEN \E applied \in BOOLEAN :
                      /\ commits' =
                         Append(commits, [ops |-> filled, applied |-> applied])
                      /\ IF applied
                         THEN /\ collection' = commit(collection, filled)
                              /\ batch' = <<>>
                              /\ UNCHANGED store_pc
                         ELSE /\ store_pc' = "failed"
                              /\ batch' = filled
                              /\ UNCHANGED collection
              ELSE /\ batch' = filled
                   /\ UNCHANGED <<store_pc, collection, commits>>
    /\ UNCHANGED <<script, vocab_entries, docs, doc_no>>
    /\ UNCHANGED <<matcher_vars, pipeline_vars, rag_vars, split_vars>>

\* after the loop: if count % batch_size != 0: batch.commit()
CommitRemaining ==
    /\ store_pc = "upload"
    /\ batch_count = Len(vocab_entries)
    /\ IF batch_left(batch_count)
       THEN \E applied \in BOOLEAN :
              /\ commits' =
                   Append(commits, [ops |-> batch, applied |-> applied])
              /\ IF applied
                 THEN /\ collection' = commit(collection, batch)
                      /\ store_pc' = "done"
                 ELSE /\ store_pc' = "failed"
                      /\ UNCHANGED collection
       ELSE /\ store_pc' = "done"
            /\ UNCHANGED <<collection, commits>>
    /\ UNCHANGED <<script, vocab_entries, docs, doc_no, batch, batch_count>>
    /\ UNCHANGED <<matcher_vars, pipeline_vars, rag_vars, split_vars>>

\* add_timestamps_to_documents up to the loop: docs = list(vocab_ref.stream())
AddTimestampsToDocuments ==
    /\ store_pc = "start"
    /\ script = "add_timestamps"
    /\ docs' = stream(collection)
    /\ batch' = <<>>
    /\ batch_count' = 0
    /\ store_pc' = "update"
    /\ UNCHANGED <<script, collection, vocab_entries, doc_no, commits>>
    /\ UNCHANGED <<matcher_vars, pipeline_vars, rag_vars, split_vars>>

\* one turn of `for doc in docs`: batch.update, count += 1, and with a full
\* batch its commit and a new batch
BatchUpdate ==
    /\ store_pc = "update"
    /\ batch_count < Len(docs)
    /\ LET filled == Append(batch,
                            write("update", docs[batch_count + 1].ref, 0))
       IN  /\ batch_count' = batch_count + 1
           /\ IF batch_full(batch_count + 1)
              THEN \E applied \in BOOLEAN :
                      /\ commits' =
                         Append(commits, [ops |-> filled, applied |-> applied])
                      /\ IF applied
                         THEN /\ collection' = commit(collection, filled)
                              /\ batch' = <<>>
                              /\ UNCHANGED store_pc
                         ELSE /\ store_pc' = "failed"
                              /\ batch' = filled
                              /\ UNCHANGED collection
              ELSE /\ batch' = filled
                   /\ UNCHANGED <<store_pc, collection, commits>>
    /\ UNCHANGED <<script, vocab_entries, docs, doc_no>>
    /\ UNCHANGED <<matcher_vars, pipeline_vars, rag_vars, split_vars>>

\* after the loop: if count % batch_size != 0: batch.commit()
CommitRemainingUpdates ==
    /\ store_pc = "update"
    /\ batch_count = Len(docs)
    /\ IF batch_left(batch_count)
       THEN \E applied \in BOOLEAN :
              /\ commits' =
                   Append(commits, [ops |-> batch, applied |-> applied])
              /\ IF applied
                 THEN /\ collection' = commit(collection, batch)
                      /\ store_pc' = "done"
                 ELSE /\ store_pc' = "failed"
                      /\ UNCHANGED collection
       ELSE /\ store_pc' = "done"
            /\ UNCHANGED <<collection, commits>>
    /\ UNCHANGED <<script, vocab_entries, docs, doc_no, batch, batch_count>>
    /\ UNCHANGED <<matcher_vars, pipeline_vars, rag_vars, split_vars>>

StoreNext ==
    \/ UploadToFirestore
    \/ BatchDelete
    \/ CommitDeletes
    \/ BatchSet
    \/ CommitRemaining
    \/ AddTimestampsToDocuments
    \/ BatchUpdate
    \/ CommitRemainingUpdates

StoreSpec == StoreInit /\ [][StoreNext]_vars

-----------------------------------------------------------------------------
(* backend/rag/create_dictionary_entries.py: create_dictionary_entries.    *)
(* A line of the dictionary file is a text that ends with its newline; a   *)
(* file of the output directory is a name and what was written to it.      *)

\* the longest dictionary file, in lines
MaxDictLines == 3

\* lines of a dictionary file: headers "<id>,<rest>", one of them indented,
\* lines that continue an entry, and lines without text
DictLines ==
    {l \o <<"\n">> :
        l \in {<<"1", ",", "a">>, <<"2", ",", "b">>, <<" ", "1", ",", "a">>,
               <<"y">>, <<"3">>, <<"x", ",">>, <<" ">>, <<>>}}

\* the test of the counting pass on a line as read:
\* line.strip() and line[0].isdigit() and ',' in line
counted(line) ==
    /\ strip(line) # <<>>
    /\ line[1] \in Digit
    /\ Contains(line, <<",">>)

\* total_entries = sum(1 for line in open(input_file) if ...)
count_entries(lines) == Cardinality({k \in 1..Len(lines) : counted(lines[k])})

\* the test of the loop on a stripped line that is not empty:
\* line[0].isdigit() and ',' in line
starts_entry(line) == line[1] \in Digit /\ Contains(line, <<",">>)

\* first_line.split(',')[0]
RECURSIVE before_comma(_)
before_comma(text) ==
    IF text = <<>> \/ Head(text) = "," THEN <<>>
    ELSE <<Head(text)>> \o before_comma(Tail(text))

\* f"entry_{entry_id}.txt"
filename(entry_id) ==
    <<"e", "n", "t", "r", "y", "_">> \o entry_id \o <<".", "t", "x", "t">>

\* '\n'.join(entry_lines)
RECURSIVE join(_)
join(entry_lines) ==
    IF entry_lines = <<>> THEN <<>>
    ELSE IF Len(entry_lines) = 1 THEN Head(entry_lines)
    ELSE Head(entry_lines) \o <<"\n">> \o join(Tail(entry_lines))

\* save_entry: open(filepath, 'w') and f.write('\n'.join(entry_lines))
save_entry(dir, entry_lines) ==
    LET name == filename(before_comma(entry_lines[1]))
    IN  {f \in dir : f.name # name}
        \cup {[name |-> name, content |-> join(entry_lines)]}

SplitInit ==
    /\ input_file \in SeqsUpTo(DictLines, MaxDictLines)
    /\ split_pc = "start"
    /\ lines_read = 0
    /\ total_entries = 0
    /\ current_entry = <<>>
    /\ saved = <<>>
    /\ output_dir = {}
    /\ NoStore
    /\ NoRag
    /\ NoPipeline
    /\ contexts = <<>>
    /\ vocabulary_word = <<>>
    /\ caller = "none"
    /\ result = NoResult

\* create_dictionary_entries up to the loop: makedirs, the counting pass,
\* current_entry = []
CountEntries ==
    /\ split_pc = "start"
    /\ total_entries' = count_entries(input_file)
    /\ current_entry' = <<>>
    /\ split_pc' = "loop"
    /\ UNCHANGED <<input_file, lines_read, saved, output_dir>>
    /\ UNCHANGED <<matcher_vars, pipeline_vars, rag_vars, store_vars>>

\* one turn of `for line in f`
ReadLine ==
    /\ split_pc = "loop"
    /\ lines_read < Len(input_file)
    /\ lines_read' = lines_read + 1
    /\ LET line == strip(input_file[lines_read + 1])
       IN  IF line = <<>>
           THEN UNCHANGED <<current_entry, saved, output_dir>>
           ELSE IF starts_entry(line)
           THEN /\ IF current_entry # <<>>
                   THEN /\ output_dir' = save_entry(output_dir, current_entry)
                        /\ saved' = Append(saved, current_entry)
                   ELSE UNCHANGED <<saved, output_dir>>
                /\ current_entry' = <<line>>
           ELSE /\ current_entry' = Append(current_entry, line)
                /\ UNCHANGED <<saved, output_dir>>
    /\ UNCHANGED <<split_pc, input_file, total_entries>>
    /\ UNCHANGED <<matcher_vars, pipeline_vars, rag_vars, store_vars>>

\* after the loop: if current_entry: save_entry(current_entry, output_dir)
SaveLastEntry ==
    /\ split_pc = "loop"
    /\ lines_read = Len(input_file)
    /\ IF current_entry # <<>>
       THEN /\ output_dir' = save_entry(output_dir, current_entry)
            /\ saved' = Append(saved, current_entry)
       ELSE UNCHANGED <<saved, output_dir>>
    /\ split_pc' = "done"
    /\ UNCHANGED <<input_file, lines_read, total_entries, current_entry>>
    /\ UNCHANGED <<matcher_vars, pipeline_vars, rag_vars, store_vars>>

SplitNext == CountEntries \/ ReadLine \/ SaveLastEntry

SplitSpec == SplitInit /\ [][SplitNext]_vars

-----------------------------------------------------------------------------
(* What the properties speak of, stated without the scans above *)

Min(S) == CHOOSE x \in S : \A y \in S : x <= y
Max(S) == CHOOSE x \in S : \A y \in S : x >= y

Called == caller # "none"
ByBackend == caller = "backend/main.py"
ByGenerate == caller = "generate-sentences.py"

\* t without its leading and trailing whitespace
Trimmed(t) ==
    LET keep == {k \in 1..Len(t) : t[k] \notin Whitespace}
    IN  IF keep = {} THEN <<>> ELSE SubSeq(t, Min(keep), Max(keep))

\* t starts with d digits and a comma
IdIs(t, d) ==
    /\ d + 1 <= Len(t)
    /\ \A k \in 1..d : t[k] \in Digit
    /\ t[d + 1] = ","

\* the first colon of t after position d + 1 is at c, and not at once
FirstColonIs(t, d, c) ==
    /\ t[c] = ":"
    /\ \A k \in (d + 2)..(c - 1) : t[k] # ":"

\* t reads <digits>,<w>: with w non-empty and free of colons
HeadwordIs(t, w) ==
    \E d \in 1..Len(t) :
        /\ IdIs(t, d)
        /\ \E c \in (d + 3)..Len(t) :
            FirstColonIs(t, d, c) /\ w = SubSeq(t, d + 2, c - 1)

\* t has some headword
Parseable(t) ==
    \E d \in 1..Len(t) :
        IdIs(t, d) /\ \E c \in (d + 3)..Len(t) : FirstColonIs(t, d, c)

\* the ranks of the candidates whose headword is the queried word
Matching ==
    {i \in 1..Len(contexts) : HeadwordIs(Trimmed(contexts[i]), vocabulary_word)}

ChosenIndex == IF Matching # {} THEN Min(Matching) ELSE 1

ChosenText == Trimmed(contexts[ChosenIndex])

\* t holds one of the three literal markers
HasMarker(t) ==
    \E m \in {LabelWritten, LabelMainland, BangFormal}, i \in 1..Len(t) :
        /\ i + Len(m) - 1 <= Len(t)
        /\ \A k \in 1..Len(m) : t[i + k - 1] = m[k]

\* the first ")" after the "(sim:" at p, Len(t) + 1 when there is none
SimClose(t, p) ==
    Min({k \in (p + 5)..(Len(t) + 1) : k = Len(t) + 1 \/ t[k] = ")"})

SimValid(t, p) ==
    /\ StartsWithAt(t, p, SimOpen)
    /\ SimClose(t, p) > p + 5
    /\ SimClose(t, p) <= Len(t)

\* the (sim:<text>) occurrences that do not lie inside an earlier one
SimSpanSet(t) ==
    {<<p + 5, SimClose(t, p) - 1>> :
        p \in {p \in 1..Len(t) :
                /\ SimValid(t, p)
                /\ ~ \E q \in 1..(p - 1) : SimValid(t, q) /\ SimClose(t, q) >= p}}

\* position k holds an ideograph of a yue: example line
InYueWord(t, k) ==
    /\ k \in 1..Len(t)
    /\ t[k] \in CJK
    /\ \E p \in 1..(k - 4) :
        /\ StartsWithAt(t, p, YueOpen)
        /\ \A j \in (p + 4)..k : t[j] # "\n"

\* the maximal runs of such positions
YueWordSet(t) ==
    {<<s, Min({e \in s..Len(t) : ~InYueWord(t, e + 1)})>> :
        s \in {s \in 1..Len(t) : InYueWord(t, s) /\ ~InYueWord(t, s - 1)}}

\* the spans of S from left to right
RECURSIVE InOrder(_)
InOrder(S) ==
    IF S = {} THEN <<>>
    ELSE LET m == CHOOSE x \in S : \A y \in S : x[1] <= y[1]
         IN  <<m>> \o InOrder(S \ {m})

\* two left-to-right lists of spans as one
RECURSIVE Merged(_, _)
Merged(a, b) ==
    IF a = <<>> THEN b
    ELSE IF b = <<>> THEN a
    ELSE IF Head(a)[1] <= Head(b)[1] THEN <<Head(a)>> \o Merged(Tail(a), b)
    ELSE <<Head(b)>> \o Merged(a, Tail(b))

Synonyms(t) == Captures(t, InOrder(SimSpanSet(t)))
ExampleWords(t) == Captures(t, InOrder(YueWordSet(t)))
InOrderOfAppearance(t) ==
    Captures(t, Merged(InOrder(SimSpanSet(t)), InOrder(YueWordSet(t))))

\* no ideograph run of a yue: line starts before a (sim:<text>) capture
NoExampleBeforeSynonym(t) ==
    \A y \in YueWordSet(t), x \in SimSpanSet(t) : x[1] < y[1]

\* what the copy that was called returns for other arguments
SameCopy(ctxs, word) ==
    IF ByBackend THEN backend_find_best_entry(ctxs, word)
    ELSE find_best_entry(ctxs, word)

EmptyResult ==
    [raised |-> "", matched_text |-> <<>>, is_exact_match |-> FALSE,
     is_formal |-> FALSE, alternatives |-> <<>>]

-----------------------------------------------------------------------------
(* C1 .. C4: which candidate is returned *)

\* C1: called with an empty candidate list, find_best_entry returns
\* ("", false, false, []) and raises no error, whatever the queried word.
C1_EmptyCandidates == (Called /\ contexts = <<>>) => result = EmptyResult

C1_Witness == ByGenerate /\ contexts = <<>> /\ vocabulary_word = <<"a">>

\* C2 as stated: when some candidate, at any rank, has the queried word as its
\* headword, is_exact_match is true and matched_text is that candidate's raw
\* text.
C2_RawTextOfMatch ==
    (Called /\ Matching # {}) =>
        /\ result.is_exact_match
        /\ \E i \in Matching : result.matched_text = contexts[i]

\* C2 amended: when some candidate, at any rank, has the queried word as its
\* headword, is_exact_match is true and matched_text is such a candidate's
\* text with its leading and trailing whitespace removed.
C2_StrippedTextOfMatch ==
    (Called /\ Matching # {}) =>
        /\ result.is_exact_match
        /\ \E i \in Matching : result.matched_text = Trimmed(contexts[i])

C2_Witness ==
    /\ Called
    /\ Len(contexts) >= 2
    /\ 1 \notin Matching
    /\ 2 \in Matching
    /\ result.is_exact_match

\* C3 as stated: when no candidate has the queried word as its headword,
\* is_exact_match is false and matched_text is candidates[0] verbatim.
C3_FallbackVerbatim ==
    (Called /\ contexts # <<>> /\ Matching = {}) =>
        /\ ~result.is_exact_match
        /\ result.matched_text = contexts[1]

\* C3 amended: when no candidate has the queried word as its headword,
\* is_exact_match is false and matched_text is candidates[0] with its leading
\* and trailing whitespace removed.
C3_FallbackStripped ==
    (Called /\ contexts # <<>> /\ Matching = {}) =>
        /\ ~result.is_exact_match
        /\ result.matched_text = Trimmed(contexts[1])

C3_Witness ==
    /\ Called
    /\ Len(contexts) >= 2
    /\ Matching = {}
    /\ Trimmed(contexts[1]) # Trimmed(contexts[2])
    /\ ~result.is_exact_match

\* C4: when several candidates have the queried word as their headword, the
\* one of lowest rank is returned, and the result is the one the same call
\* gives for that candidate alone: no later candidate influences it.
C4_FirstExactWins ==
    (Called /\ Cardinality(Matching) >= 2) =>
        /\ result.matched_text = Trimmed(contexts[Min(Matching)])
        /\ result = SameCopy(<<contexts[Min(Matching)]>>, vocabulary_word)

C4_Witness ==
    /\ Called
    /\ Cardinality(Matching) >= 2
    /\ \E j \in Matching :
        /\ Trimmed(contexts[j]) # Trimmed(contexts[Min(Matching)])
        /\ HasMarker(contexts[j]) # HasMarker(contexts[Min(Matching)])
    /\ result.is_exact_match

-----------------------------------------------------------------------------
(* C5 .. C7: what is extracted from the chosen entry *)

\* C5: for a non-empty candidate list, is_formal is true exactly when the text
\* of the chosen entry (the exact match, or else candidates[0]) contains one of
\* "(label:<written>)", "(label:<mainland>)", "!!!formal"; markers of the
\* other candidates have no effect.
C5_FormalIffMarkerInChosen ==
    (Called /\ contexts # <<>>) =>
        (result.is_formal <=> HasMarker(contexts[ChosenIndex]))

C5_Witness ==
    /\ Called
    /\ contexts # <<>>
    /\ ~HasMarker(contexts[ChosenIndex])
    /\ \E i \in 1..Len(contexts) : i # ChosenIndex /\ HasMarker(contexts[i])
    /\ ~result.is_formal

\* C6 as stated: the alternatives of find_best_entry are the (sim:<text>)
\* captures of the chosen entry in order of appearance, followed by the
\* ideograph runs of its yue: example lines in order of appearance.
C6_SynonymsThenExampleWords ==
    (Called /\ contexts # <<>>) =>
        LET t == ChosenText
        IN  result.alternatives = Synonyms(t) \o ExampleWords(t)

\* C6 amended: the alternatives are the (sim:<text>) captures of the chosen
\* entry in order of appearance, followed, in the find_best_entry of
\* generate-sentences.py only, by the ideograph runs of its yue: example lines
\* in order of appearance; the find_best_entry of backend/main.py returns the
\* captures alone.
C6_SynonymsThenExampleWordsPerCopy ==
    (Called /\ contexts # <<>>) =>
        LET t == ChosenText
        IN  result.alternatives =
                Synonyms(t) \o (IF ByGenerate THEN ExampleWords(t) ELSE <<>>)

C6_Witness ==
    /\ ByGenerate
    /\ contexts # <<>>
    /\ Len(result.alternatives) > 2
    /\ Len(Synonyms(ChosenText)) = 1
    /\ Len(ExampleWords(ChosenText)) = 2
    /\ ~NoExampleBeforeSynonym(ChosenText)

\* C7 as stated: the alternatives of find_best_entry (generate-sentences.py)
\* are listed in the order of their positions in the chosen entry's text, also
\* when a yue: example line precedes a (sim:...) marker.
C7_OrderOfAppearance ==
    (ByGenerate /\ contexts # <<>>) =>
        result.alternatives = InOrderOfAppearance(ChosenText)

\* C7 amended: the alternatives are listed in the order of their positions in
\* the chosen entry's text when no yue: example word precedes a (sim:...)
\* capture; when one does, every capture still comes before every example
\* word, each group in its order of appearance.
C7_OrderOfAppearanceWithinGroups ==
    (ByGenerate /\ contexts # <<>>) =>
        LET t == ChosenText
        IN  IF NoExampleBeforeSynonym(t)
            THEN result.alternatives = InOrderOfAppearance(t)
            ELSE result.alternatives = Synonyms(t) \o ExampleWords(t)

C7_Witness ==
    /\ ByGenerate
    /\ contexts # <<>>
    /\ Len(result.alternatives) > 2
    /\ SimSpanSet(ChosenText) # {}
    /\ YueWordSet(ChosenText) # {}
    /\ NoExampleBeforeSynonym(ChosenText)

-----------------------------------------------------------------------------
(* C8 .. C10: malformed input *)

\* what the copy that was called extracts from the text t
AlternativesOf(t) ==
    Synonyms(t) \o (IF ByGenerate THEN ExampleWords(t) ELSE <<>>)

C9_StrictEquality == Called => (result.is_exact_match <=> Matching # {})

C9_Witness ==
    /\ Called
    /\ Len(contexts) = 1
    /\ HeadwordIs(Trimmed(contexts[1]), <<" ">> \o vocabulary_word)
    /\ ~result.is_exact_match

\* C10: find_best_entry never raises: for every candidate list (empty, with
\* unparseable entries, with empty or whitespace-only texts) and every queried
\* word it returns a 4-tuple, the documented fallback values where nothing
\* matches.
C10_NeverRaises ==
    Called =>
        /\ result.raised = ""
        /\ result.is_exact_match \in BOOLEAN
        /\ result.is_formal \in BOOLEAN
        /\ contexts = <<>> => result = EmptyResult
        /\ (contexts # <<>> /\ Trimmed(contexts[1]) = <<>> /\ Matching = {})
              => result = EmptyResult

C10_Witness ==
    /\ ByBackend
    /\ contexts # <<>>
    /\ \A i \in 1..Len(contexts) : Trimmed(contexts[i]) = <<>>
    /\ \E i \in 1..Len(contexts) : contexts[i] # <<>>
    /\ result.raised = ""

-----------------------------------------------------------------------------
(* The pipelines: what the properties speak of *)

Issued(call) == \E k \in 1..Len(calls) : calls[k] = call

IsPrefix(s, t) == Len(s) <= Len(t) /\ s = SubSeq(t, 1, Len(s))

\* what simplified_to_traditional hands back for the word in hand
Converted ==
    IF convert_response.raised THEN original_word
    ELSE Trimmed(convert_response.text)

\* the word of the request, or of the last line read that is not blank
InputWord ==
    IF pipeline = "http" THEN request.word
    ELSE LET read == {k \in 1..line_no : Trimmed(input_lines[k]) # <<>>}
         IN  IF read = {} THEN <<>> ELSE Trimmed(input_lines[Max(read)])

\* the record written last, to Firestore or to the output file
Written == IF pipeline = "http" THEN documents ELSE outfile
LastWritten == Written[Len(Written)]

\* nothing is left to do for the word in hand
WordFinished == calls # <<>> /\ pc \in {"line", "done"}

\* C14 as stated: in both pipelines the word passed to the corpus retrieval
\* and to find_best_entry is the value simplified_to_traditional returned for
\* the input word and never the original input word itself; the Mandarin
\* generation and the stored or written 'simplified' field use the original
\* input word.
C14_ConvertedNeverOriginal ==
    /\ Issued("retrieve") =>
          query_text = Converted /\ query_text # InputWord
    /\ Called =>
          vocabulary_word = Converted /\ vocabulary_word # InputWord
    /\ Issued("mandarin") => mandarin_input = InputWord
    /\ Issued("write") /\ Written # <<>> =>
          LastWritten.simplified = InputWord

\* C14 amended: the word passed to the corpus retrieval and to
\* find_best_entry is the value simplified_to_traditional returned for the
\* input word, which is the input word itself only when the conversion call
\* raised or answered with that same text; the Mandarin generation and the
\* stored or written 'simplified' field use the original input word.
C14_ConvertedWordPassed ==
    /\ Issued("retrieve") =>
          /\ query_text = Converted
          /\ query_text = InputWord =>
                \/ convert_response.raised
                \/ Trimmed(convert_response.text) = InputWord
    /\ Called =>
          /\ vocabulary_word = Converted
          /\ vocabulary_word = InputWord =>
                \/ convert_response.raised
                \/ Trimmed(convert_response.text) = InputWord
    /\ Issued("mandarin") => mandarin_input = InputWord
    /\ Issued("write") /\ Written # <<>> =>
          LastWritten.simplified = InputWord

C14_Witness ==
    /\ pipeline = "http"
    /\ response = 200
    /\ Called
    /\ convert_response.text = TraditionalWord \o <<"\n">>
    /\ vocabulary_word = TraditionalWord
    /\ query_text = TraditionalWord
    /\ mandarin_input = SimplifiedWord
    /\ documents[1].simplified = SimplifiedWord

\* the one order of the external calls of a word
CallOrder ==
    <<"convert", "mandarin", "corpus", "retrieve", "meaning", "claude",
      "write">>
CallOrderWithoutMeaning ==
    <<"convert", "mandarin", "corpus", "retrieve", "claude", "write">>

\* C15: for each processed word the external calls are issued in one fixed
\* order whatever the earlier calls gave: script conversion, Mandarin
\* generation, corpus lookup, retrieval query, the optional meaning query,
\* Cantonese generation, the output write; the Cantonese generation is
\* attempted even when the Mandarin generation failed, and never before the
\* retrieval returned or failed.
C15_FixedCallOrder ==
    /\ IsPrefix(calls, CallOrder) \/ IsPrefix(calls, CallOrderWithoutMeaning)
    /\ pc = "write" \/ WordFinished => Issued("claude")
    /\ Issued("claude") => Issued("retrieve") /\ pc # "retrieve"

C15_Witness ==
    /\ pc = "done"
    /\ ~Truthy(mandarin_sentence)
    /\ calls = <<"convert", "mandarin", "corpus", "retrieve", "meaning",
                 "claude">>

\* C18: the HTTP handler writes a Firestore document exactly when it answers
\* 200: a request without 'word' gets 400, one whose Mandarin or Cantonese
\* generation gave nothing gets 500, one that raised gets 500, and none of
\* these writes a document; a 200 follows exactly one document write, of the
\* original word and both generated sentences.
C18_DocumentIffOk ==
    pipeline = "http" =>
        /\ response \in {0, 204, 400, 500, 200}
        /\ (response = 0) <=> (pc # "done")
        /\ (response = 200) <=> (documents # <<>>)
        /\ response = 200 =>
              /\ Len(documents) = 1
              /\ Truthy(mandarin_sentence) /\ Truthy(cantonese_sentence)
              /\ documents[1] = [simplified |-> request.word,
                                 mandarin   |-> mandarin_sentence,
                                 cantonese  |-> cantonese_sentence]
        /\ pc = "done" /\ request.method = "POST" =>
              /\ request.json \in {"nothing", "no word"} => response = 400
              /\ request.json = "raises" => response = 500
              /\ Issued("claude") /\ ~Truthy(mandarin_sentence) =>
                    response = 500
              /\ Issued("claude") /\ ~Truthy(cantonese_sentence) =>
                    response = 500

C18_Witness ==
    /\ pipeline = "http"
    /\ pc = "done"
    /\ response = 200
    /\ Len(documents) = 1
    /\ documents[1].simplified = SimplifiedWord

\* C19: generate_cantonese_sentence issues the Mandarin-meaning query exactly
\* when the matcher result is not an exact match or is formal, which includes
\* a failed or empty retrieval; for an exact, non-formal match no meaning
\* query is issued and the prompt carries no Mandarin definition; a failed
\* meaning query does not keep the Cantonese generation from being called.
C19_MeaningQueryIffNeeded ==
    /\ pc = "claude" \/ Issued("claude") =>
          /\ Issued("meaning") <=>
                (~result.is_exact_match \/ result.is_formal)
          /\ ~Called => ~result.is_exact_match /\ Issued("meaning")
    /\ Issued("claude") /\ result.is_exact_match /\ ~result.is_formal =>
          ~Issued("meaning") /\ prompt.definition = ""
    /\ Issued("claude") /\ prompt.definition # "" =>
          Issued("meaning") /\ prompt.definition = mandarin_meaning
    /\ Issued("meaning") /\ (pc = "write" \/ WordFinished) => Issued("claude")

C19_Witness ==
    /\ Called
    /\ result.is_exact_match
    /\ ~result.is_formal
    /\ Issued("claude")
    /\ ~Issued("meaning")
    /\ prompt.definition = ""

-----------------------------------------------------------------------------
(* upload_file_batch: what the properties speak of *)

Attempts == Len(api_outcomes)
LastOutcome == api_outcomes[Attempts]

\* every attempt met a quota or rate-limit error
OnlyRateLimited ==
    Attempts > 0 /\ \A k \in 1..Attempts : api_outcomes[k] = "quota"

\* an attempt met an error that is not a quota or rate-limit error
OtherErrorAt(k) == api_outcomes[k] \in {"api error", "other error"}

\* C20: upload_file_batch always ends with a result record {success,
\* entry_id, error} and never raises: a successful upload gives
\* success = true; a quota or rate-limit error is retried with exponential
\* back-off capped at 300 seconds, at most 5 times, after which the result is
\* the failure 'Max retries exceeded'; any other error gives a failure at
\* once, without a further attempt.
C20_BoundedRetries ==
    task_pc = "returned" =>
        /\ task_result.entry_id = task_entry
        /\ task_result.success <=> LastOutcome = "ok"
        /\ task_result.success => task_result.error = "None"
        /\ OnlyRateLimited =>
              /\ task_result.error = "Max retries exceeded"
              /\ Attempts = max_retries
              /\ Len(waits) <= max_retries
              /\ \A k \in 1..Len(waits) :
                    waits[k] <= 300 /\ (k > 1 => waits[k] >= waits[k - 1])
        /\ \A k \in 1..Attempts : OtherErrorAt(k) =>
              k = Attempts /\ ~task_result.success

-----------------------------------------------------------------------------
(* upload_dictionary_entries: what the properties speak of *)

Elements(s) == {s[k] : k \in 1..Len(s)}

BatchIds(k) == Elements(batches[k])

\* the entry files handed to executor.submit so far in this run
Submitted ==
    IF batch_no = 0 THEN {}
    ELSE UNION {BatchIds(k) : k \in 1..(batch_no - 1)}
         \cup {batches[batch_no][i] : i \in 1..(next_submit - 1)}

\* the uploads of this run the coordinating thread has not yet taken the
\* result of: queued, running in a worker, or done and waiting
NotYetTaken == Elements(queued) \cup running \cup done_ok \cup done_failed

\* the uploads of this run whose result the coordinating thread has taken
Taken == (uploaded_entries \ loaded_progress) \cup failed_ids

\* the IDs a start of the script would read from the progress file
Persisted == IF progress_file.state = "valid" THEN progress_file.ids ELSE {}

\* C12 as stated: after a run of upload_dictionary_entries was interrupted at
\* any point and the script started again, no entry file whose upload
\* succeeded in the earlier run is submitted again.
C12_NoResubmission == Submitted \cap earlier_succeeded = {}

\* C12 amended: after a run was interrupted and the script started again, no
\* entry file whose ID is in the progress set persisted at start-up is
\* submitted (upload_info is the entry files without them); an upload that
\* succeeded after the last save of the earlier run is not in that set.
C12_PersistedSkipped ==
    /\ Submitted \cap loaded_progress = {}
    /\ batch_no > 0 =>
          UNION {BatchIds(k) : k \in 1..Len(batches)}
              = entry_files \ loaded_progress
    /\ run_pc = "done" /\ batch_no = 0 => entry_files \subseteq loaded_progress

C12_Witness ==
    /\ run_no = 2
    /\ run_pc = "collect"
    /\ loaded_progress \cap entry_files # {}
    /\ Submitted \cap earlier_succeeded # {}

\* C13: the checkpoint set uploaded_entries is never touched by a worker
\* task: an ID is inserted only by the coordinating thread, only after the
\* worker task of that entry completed, and only when it reported success; so
\* the set and every persisted snapshot of it never hold the ID of an entry
\* whose upload failed or is still in flight in this run.
C13_CheckpointOnlyByCoordinator ==
    /\ [](/\ uploaded_entries \cap (failed_ids \cup NotYetTaken) = {}
          /\ Persisted \cap (failed_ids \cup NotYetTaken) = {})
    /\ [][uploaded_entries' # uploaded_entries =>
            \/ run_pc = "start"
            \/ run_pc' = "start"
            \/ /\ run_pc = "collect"
               /\ running' = running
               /\ queued' = queued
               /\ \E id \in done_ok :
                    /\ uploaded_entries' = uploaded_entries \cup {id}
                    /\ id \notin done_ok']_vars
    /\ [][progress_file' # progress_file =>
            /\ run_pc = "collect"
            /\ running' = running
            /\ progress_file' = [state |-> "valid", ids |-> uploaded_entries']
         ]_vars

C13_Witness ==
    /\ failed_ids # {}
    /\ uploaded_entries \ loaded_progress # {}
    /\ running # {}

\* C17: at any moment at most MAX_WORKERS (5) uploads are in progress, all of
\* them of the same batch of at most BATCH_SIZE (10) files; no file of batch
\* k+1 is submitted before every file of batch k has completed.
C17_BoundedParallelism ==
    /\ Cardinality(running) <= 5
    /\ \A k \in 1..Len(batches) : Len(batches[k]) <= 10
    /\ batch_no > 0 => NotYetTaken \subseteq BatchIds(batch_no)
    /\ \A k \in 1..Len(batches) : k < batch_no => BatchIds(k) \subseteq Taken
    /\ \A k \in 1..Len(batches) :
          k > batch_no => BatchIds(k) \cap (NotYetTaken \cup Taken) = {}

C17_Witness ==
    /\ Len(batches) = 2
    /\ batch_no = 1
    /\ Cardinality(running) = 5
    /\ queued # <<>>

-----------------------------------------------------------------------------
(* move_processed_entries: what the properties speak of *)

\* the entry files there were before the run, moved or not
AllEntryFiles == entry_files \cup done_files

\* C16: with dry_run = True move_processed_entries changes nothing on the file
\* system (no file is moved, done/ is not created); with dry_run = False
\* exactly the entry files whose ID is in the progress file are moved to
\* done/ and every other entry file stays where it is.
C16_MovesExactlyProcessed ==
    /\ dry_run => done_files = {} /\ done_dir # "created"
    /\ ~dry_run /\ move_pc = "done" =>
          /\ done_files = AllEntryFiles \cap Persisted
          /\ entry_files = AllEntryFiles \ Persisted

-----------------------------------------------------------------------------
(* upload_dictionary_entries: the end of the upload loop *)

RECURSIVE Concat(_)
Concat(ss) == IF ss = <<>> THEN <<>> ELSE Head(ss) \o Concat(Tail(ss))

\* the entry files in the order they were handed to executor.submit
SubmittedInOrder ==
    IF batch_no = 0 THEN <<>>
    ELSE Concat(SubSeq(batches, 1, batch_no - 1))
         \o SubSeq(batches[batch_no], 1, next_submit - 1)

Times(s, x) == Cardinality({k \in 1..Len(s) : s[k] = x})

\* the entry files whose ID was not in the progress set loaded at start-up
Pending == entry_files \ loaded_progress

\* the run went through the upload loop and the final save_progress
LoopFinished == run_pc = "done" /\ batch_no > 0

-----------------------------------------------------------------------------
(* upload_to_firestore and add_timestamps_to_documents: the batches *)

Ops(k) == commits[k].ops

HasSet(k) == \E i \in 1..Len(Ops(k)) : Ops(k)[i].op = "set"

\* the IDs of the documents the script read from the collection
Read == {docs[i].ref : i \in 1..Len(docs)}

\* where in the committed batches the k-th parsed entry is written
WritesOf(k) ==
    {<<b, i>> \in (1..Len(commits)) \X (1..batch_size) :
        /\ i <= Len(Ops(b))
        /\ Ops(b)[i].op = "set"
        /\ Ops(b)[i].data = vocab_entries[k]}

\* C22: no batch that upload_to_firestore or add_timestamps_to_documents
\* commits holds more than 500 operations, however many documents exist and
\* however many entries are uploaded.
C22_BatchLimit == \A k \in 1..Len(commits) : Len(Ops(k)) <= 500

\* C23: upload_to_firestore commits the deletion of all the documents that
\* existed before it commits any new document, and when it completes every
\* parsed entry has been committed in exactly one batch, also when the number
\* of entries is zero or a multiple of 500, so that the collection holds
\* exactly the parsed entries.
C23_DeleteThenUploadOnce ==
    script = "upload_vocab" =>
        /\ \A k \in 1..Len(commits) : HasSet(k) =>
              /\ k > 1
              /\ commits[1].applied
              /\ Refs(Ops(1), "delete") = Read
              /\ \A i \in 1..Len(Ops(k)) : Ops(k)[i].op = "set"
        /\ (\E d \in collection : d.data # Old) =>
              (\A d \in collection : d.data # Old)
        /\ store_pc \in {"upload", "done"} =>
              \A d \in collection : d.data # Old
        /\ store_pc = "done" =>
              /\ \A k \in 1..Len(commits) : commits[k].applied
              /\ \A k \in 1..Len(vocab_entries) :
                    Cardinality(WritesOf(k)) = 1
              /\ Cardinality(collection) = Len(vocab_entries)
              /\ {d.data : d \in collection} = Elements(vocab_entries)

C23_Witness ==
    /\ script = "upload_vocab"
    /\ store_pc = "done"
    /\ Len(docs) > 1
    /\ Len(vocab_entries) = 2 * batch_size
    /\ Len(commits) = 3

-----------------------------------------------------------------------------
(* The two copies of find_best_entry side by side *)

\* what the copy of backend/main.py returns for the arguments of the call
OfBackend ==
    IF ByBackend THEN result
    ELSE backend_find_best_entry(contexts, vocabulary_word)

\* what the copy of generate-sentences.py returns for them
OfGenerate ==
    IF ByGenerate THEN result
    ELSE find_best_entry(contexts, vocabulary_word)

\* C24: for every candidate list and queried word the two copies of
\* find_best_entry return the same matched_text, is_exact_match and
\* is_formal, and the alternatives of the backend copy are a prefix of the
\* alternatives of the generate-sentences copy, which has the words of the
\* yue: example sentences appended and nothing else.
C24_CopiesEquivalent ==
    Called =>
        LET b == OfBackend
            g == OfGenerate
        IN  /\ b.raised = g.raised
            /\ b.matched_text = g.matched_text
            /\ b.is_exact_match = g.is_exact_match
            /\ b.is_formal = g.is_formal
            /\ IsPrefix(b.alternatives, g.alternatives)
            /\ g.alternatives
                 = b.alternatives \o ExampleWords(g.matched_text)

C24_Witness ==
    /\ ByBackend
    /\ Len(contexts) = 2
    /\ result.is_exact_match
    /\ result.matched_text # contexts[1]
    /\ result.alternatives # <<>>
    /\ Len(OfGenerate.alternatives) > Len(result.alternatives)

-----------------------------------------------------------------------------
(* create_dictionary_entries: the entries and their files *)

\* a line that starts with a digit and contains a comma
IsHeader(line) ==
    /\ line # <<>>
    /\ line[1] \in Digit
    /\ \E i \in 1..Len(line) : line[i] = ","

\* the lines of the dictionary file that are not empty, in their order, as
\* the loop handles them
NonEmptyLines ==
    LET stripped == [k \in 1..Len(input_file) |-> strip(input_file[k])]
    IN  SelectSeq(stripped, LAMBDA l : l # <<>>)

\* the text before the first comma of a line
IdOf(line) ==
    LET commas == {i \in 1..Len(line) : line[i] = ","}
    IN  IF commas = {} THEN line ELSE SubSeq(line, 1, Min(commas) - 1)

\* the last entry saved under the name of the k-th
LastSavedAs(k) ==
    Max({j \in 1..Len(saved) : IdOf(saved[j][1]) = IdOf(saved[k][1])})

\* C25: create_dictionary_entries partitions the non-empty lines of the
\* dictionary file into entries: every line that starts with a digit and
\* contains a comma begins a new entry, every other non-empty line is
\* appended to the entry in progress, each entry is saved once as
\* entry_<id>.txt where <id> is the text before the first comma of its first
\* line, the number of saved entries is the number of header lines counted
\* for the progress bar, and each saved file holds the lines of its entry in
\* their original order.
C25_PartitionIntoEntries ==
    split_pc = "done" =>
        /\ Concat(saved) = NonEmptyLines
        /\ \A k \in 1..Len(saved) :
              /\ IsHeader(saved[k][1])
              /\ \A i \in 2..Len(saved[k]) : ~IsHeader(saved[k][i])
        /\ Len(saved) = total_entries
        /\ \A k \in 1..Len(saved) :
              \E f \in output_dir :
                 /\ f.name = <<"e", "n", "t", "r", "y", "_">>
                             \o IdOf(saved[k][1]) \o <<".", "t", "x", "t">>
                 /\ f.content = join(saved[LastSavedAs(k)])
        /\ Cardinality(output_dir)
             = Cardinality({IdOf(saved[k][1]) : k \in 1..Len(saved)})

-----------------------------------------------------------------------------
(* process_vocabulary_words: the output file *)

\* the words of the input lines read so far that are not blank, in order
WordsRead ==
    LET words == [k \in 1..line_no |-> Trimmed(input_lines[k])]
    IN  SelectSeq(words, LAMBDA w : w # <<>>)

\* the words of the records written to the output file, in order
WordsWritten == [k \in 1..Len(outfile) |-> outfile[k].simplified]

\* s is t with some of its elements left out
RECURSIVE IsSubsequence(_, _)
IsSubsequence(s, t) ==
    IF s = <<>> THEN TRUE
    ELSE IF t = <<>> THEN FALSE
    ELSE IF Head(s) = Head(t) THEN IsSubsequence(Tail(s), Tail(t))
    ELSE IsSubsequence(s, Tail(t))

\* the number of lines of the output file
RECURSIVE FileLines(_)
FileLines(records) ==
    IF records = <<>> THEN 0
    ELSE lines_written(Head(records).mandarin, Head(records).cantonese)
         + FileLines(Tail(records))

BothGenerated == Truthy(mandarin_sentence) /\ Truthy(cantonese_sentence)

AtEndOfWord == pipeline = "cli" /\ pc = "write"

\* C26 as stated: process_vocabulary_words writes one output line for an
\* input word exactly when both sentences were generated for it, the output
\* lines are in the order of their words in the input file, and the number
\* of lines of the output file never exceeds the number of the non-blank
\* input lines.
C26_LinePerGeneratedWord ==
    pipeline = "cli" =>
        /\ IsSubsequence(WordsWritten, WordsRead)
        /\ FileLines(outfile) <= Len(WordsRead)

\* C26 amended: process_vocabulary_words writes one record (the word, a tab,
\* the two sentences joined by <br><br>, a newline) for an input word
\* exactly when both sentences were generated for it; blank lines write
\* nothing, a word without both sentences is skipped and the next line is
\* read, the records are in the order of their words in the input file, and
\* their number never exceeds the number of the non-blank input lines.  A
\* record takes more than one line of the file when a sentence holds a line
\* break.
C26_RecordPerGeneratedWord ==
    /\ [](pipeline = "cli" =>
            /\ IsSubsequence(WordsWritten, WordsRead)
            /\ Len(outfile) <= Len(WordsRead)
            /\ FileLines(outfile) >= Len(outfile)
            /\ pc = "done" /\ line_no > 0 => line_no = Len(input_lines))
    /\ [][outfile' # outfile =>
            /\ AtEndOfWord
            /\ BothGenerated
            /\ outfile' = Append(outfile,
                                 [simplified |-> InputWord,
                                  mandarin   |-> mandarin_sentence,
                                  cantonese  |-> cantonese_sentence])]_vars
    /\ [][AtEndOfWord =>
            /\ pc' = "line"
            /\ BothGenerated => Len(outfile') = Len(outfile) + 1]_vars

C26_Witness ==
    /\ pipeline = "cli"
    /\ pc = "done"
    /\ Len(input_lines) = 2
    /\ Len(WordsRead) = 2
    /\ WordsRead[1] # WordsRead[2]
    /\ WordsWritten = <<WordsRead[2]>>
    /\ FileLines(outfile) = 1

====
